---- MODULE Spec2Model ----
(***************************************************************************)
(* Authenticated HTTP request pipeline of the SingaPay payment-gateway SDK *)
(* (Node and PHP implementations): token lifecycle (Authentication), the   *)
(* single-request executor (Client.request) and the retry loop             *)
(* (Client.requestWithRetry).                                              *)
(*                                                                         *)
(* The Node client is asynchronous: every task below is one caller's call  *)
(* chain, suspended at its await points; the actions are the resumptions.  *)
(* The PHP client is synchronous: one task runs at a time.                 *)
(***************************************************************************)
EXTENDS Integers, Sequences, FiniteSets, TLC

\* ------------------------------------------------------------------ bounds
MaxRetriesBound == 2   \* largest configured maxRetries explored
MaxRetriesConc == 1    \* the same, for concurrent callers
MaxTokens == 2         \* tokens the token endpoint issues in one run
MaxTime == 120         \* last clock instant explored (seconds)
MaxDepth == 3          \* deepest nesting of requestWithRetry explored

\* ------------------------------------------------------- program constants
EXPIRY_MARGIN == 60              \* Authentication.php isTokenValid margin
NODE_CACHE_BUFFER == 60          \* Authentication.js cache TTL buffer
PHP_CACHE_BUFFER == 120          \* Authentication.php cacheToken buffer
DEFAULT_EXPIRES_IN == 3600       \* lifetime assumed when expires_in is absent

\* the callers: two concurrent tasks (Node), two successive calls (PHP)
Procs == {1, 2}

\* HTTP outcomes of one exchange: a status code, or 0 for a transport
\* failure without any HTTP response (network error, timeout).
ApiStatuses == {200, 401, 404, 422, 503, 0}
TokenStatuses == {200, 401, 503}
\* expires_in values the token endpoint may send; 0 stands for "absent".
ExpiresInChoices == {0, 120}
\* shapes of a 2xx token response body
TokenBodies == {"ok", "noToken", "notSuccess"}

VARIABLES
    impl,               \* "node" | "php": which SDK this run is about
    maxRetries,         \* Config.maxRetries
    autoReauth,         \* Config.autoReauth
    isRefreshingToken,  \* Client.isRefreshingToken (Node only)
    accessToken,        \* Authentication.accessToken
    tokenExpiry,        \* Authentication.tokenExpiry (PHP only)
    cache,              \* the cache entry of the access token
    now,                \* wall clock, seconds
    tokenSeq,           \* number of tokens issued by the token endpoint
    task,               \* per caller: position, call stack, result
    authCalls,          \* number of token requests begun by authenticate()
    sequential,         \* TRUE: every call is awaited before the next one is made
    lifetimes,          \* the expires_in values the token endpoint sends
    probe,              \* one application of a pure function: inputs and output
    auth                \* Authentication instances sharing one cache backend

vars == <<impl, maxRetries, autoReauth, isRefreshingToken, accessToken,
          tokenExpiry, cache, now, tokenSeq, task, authCalls,
          sequential, lifetimes, probe, auth>>

\* ------------------------------------------------------------------ values
Null == [id |-> 0, exp |-> 0]            \* null / no token
Undefined == [id |-> -1, exp |-> 0]      \* JavaScript undefined
IsToken(t) == t.id > 0
Truthy(t) == t.id > 0

NoEntry == [present |-> FALSE, value |-> Null, expiresAt |-> 0]

NoExc == [kind |-> "none", code |-> 0, ep |-> "none", depth |-> 0]
Exc(kind, code, ep, depth) == [kind |-> kind, code |-> code, ep |-> ep, depth |-> depth]

NoResult == [kind |-> "none", code |-> 0, ep |-> "none", depth |-> 0]
ResponseResult(status) == [kind |-> "Response", code |-> status, ep |-> "api", depth |-> 1]

Top(stk) == stk[Len(stk)]
Pop(stk) == SubSeq(stk, 1, Len(stk) - 1)
SetTop(stk, f) == [stk EXCEPT ![Len(stk)] = f]

\* one activation of requestWithRetry
Frame(ep, cont) ==
    [ep |-> ep,              \* "api" | "token": the endpoint requested
     cont |-> cont,          \* who called: "top" | "ga_auth" | "rf_auth"
     retryCount |-> 0,
     last |-> NoExc,         \* lastException
     attempts |-> 0,         \* invocations of Client.request so far
     refreshes |-> 0,        \* auth.refreshToken() calls made by this activation
     seen |-> {}]            \* statuses received so far

NoPend == [tok |-> Null, ttl |-> 0]

IdleTask ==
    [pc |-> "idle",
     stack |-> <<>>,         \* activations of requestWithRetry, outermost first
     hdr |-> Null,           \* token put in the Authorization header
     pend |-> NoPend,        \* arguments of the cache.set being awaited
     result |-> NoResult,    \* what the caller of the task got
     call |-> Frame("none", "top"),  \* the outermost activation when the task ended
     recent |-> NoExc]       \* the error of the last failed step of that activation

\* ---------------------------------------------------------- pure functions
RetryableStatusCodes == {408, 429, 500, 502, 503, 504}

\* mutation: the retry budget is compared with > instead of >=
shouldRetryOffByOne(exception, retryCount, maxR) ==
    IF retryCount > maxR THEN FALSE
    ELSE exception.code \in RetryableStatusCodes

\* mutation: 503 is dropped from the retryable status codes
shouldRetryNo503(exception, retryCount, maxR) ==
    IF retryCount >= maxR THEN FALSE
    ELSE exception.code \in RetryableStatusCodes \ {503}

\* Client.shouldRetry (Node)
shouldRetry(exception, retryCount, maxR) ==
    IF retryCount >= maxR THEN FALSE
    ELSE exception.code \in RetryableStatusCodes

\* Client::shouldRetry (PHP)
phpShouldRetry(exception, retryCount, maxR) ==
    IF retryCount >= maxR THEN FALSE
    ELSE (exception.code >= 500 /\ exception.code < 600) \/ exception.code = 429

\* mutation: a 422 is not told apart from the other error statuses
requestErrorNo422(status, ep, depth) ==
    IF status # 0
    THEN IF status = 401 THEN Exc("Authentication", status, ep, depth)
         ELSE Exc("Api", status, ep, depth)
    ELSE Exc("Api", 0, ep, depth)

\* The catch block of Client.request: the exception thrown for a failed
\* exchange.  status = 0 means the transport failed without a response.
requestError(status, ep, depth) ==
    IF status # 0
    THEN IF status = 401 THEN Exc("Authentication", status, ep, depth)
         ELSE IF status = 422 THEN Exc("Validation", status, ep, depth)
         ELSE Exc("Api", status, ep, depth)
    ELSE Exc("Api", 0, ep, depth)

\* The catch blocks of Client::request (PHP): RequestException with or
\* without a response, and any other exception (status 0 here).
phpRequestError(status, ep, depth) ==
    IF status = 401 THEN Exc("Authentication", status, ep, depth)
    ELSE IF status = 422 THEN Exc("Validation", status, ep, depth)
    ELSE Exc("Api", status, ep, depth)

\* the errors handed to ValidationException: `body.errors || []` (Node),
\* `$body['errors'] ?? []` (PHP); "absent" is a body without errors and
\* "empty" the empty list
validationErrors(bodyErrors) ==
    IF bodyErrors = "absent" THEN "empty" ELSE bodyErrors

\* mutation: the re-authentication branch forgets the retry budget
canReauthUnbounded(retryCount, maxR, enabled) == enabled

\* the guard of the re-authentication branch of requestWithRetry
canReauth(retryCount, maxR, enabled) == enabled /\ retryCount < maxR

\* mutation: the request that got the 401 refreshes whatever the flag says
refreshNeededAlways(refreshing) == TRUE

\* mutation: the request that got the 401 never refreshes, it only waits
refreshNeededNever(refreshing) == FALSE

\* `if (!this.isRefreshingToken)`: the request that got the 401 refreshes
\* the token itself unless a refresh is marked as under way
refreshNeeded(refreshing) == ~refreshing

\* `while (retryCount <= maxRetries)`
loopContinues(retryCount, maxR) == retryCount <= maxR

\* the catch block of Authentication.authenticate (Node): an
\* AuthenticationException passes, anything else is wrapped with code 0
authWrap(e) ==
    IF e.kind = "Authentication" THEN e
    ELSE Exc("Authentication", 0, e.ep, e.depth)

\* `throw lastException || new ApiException(finalMessage)`
GenericApi == Exc("Api", 0, "none", 0)
thrownBy(f) == IF f.last = NoExc THEN GenericApi ELSE f.last

\* MemoryCache.has / ArrayCache::has: an entry is live until its expiry
\* instant has passed
cacheHas(c, t) == c.present /\ ~(t > c.expiresAt)

\* mutation: delete leaves the entry in place
cacheDeleteKept(c) == c

\* MemoryCache.delete / ArrayCache::delete on the token's entry
cacheDelete(c) == NoEntry

\* Unwinding of a Node call chain.  nodeRwrThrow: the top activation of
\* requestWithRetry gives up (recent is the error of its last failed step);
\* nodeAuthThrow: authenticate() on top of the stack throws e.
\* Result: the error that reaches the caller of the task, the error of the
\* last failed step of the outermost activation when that one gave up, and
\* whether isRefreshingToken was released.
RECURSIVE nodeRwrThrow(_, _)
RECURSIVE nodeAuthThrow(_, _)
\* mutation: catch (refreshError) breaks without releasing isRefreshingToken
nodeAuthThrowFlagKept(stk, e) ==
    IF Top(stk).cont = "rf_auth"
    THEN nodeRwrThrow(Pop(stk), e)
    ELSE [result |-> e, recent |-> NoExc, released |-> FALSE]
nodeAuthThrow(stk, e) ==
    IF Top(stk).cont = "rf_auth"
    THEN \* catch (refreshError) { isRefreshingToken = false; break; }
         [nodeRwrThrow(Pop(stk), e) EXCEPT !.released = TRUE]
    ELSE [result |-> e, recent |-> NoExc, released |-> FALSE]
nodeRwrThrow(stk, recent) ==
    LET f == Top(stk)
    IN IF f.cont = "top"
       THEN [result |-> thrownBy(f), recent |-> recent, released |-> FALSE]
       ELSE LET r == nodeAuthThrow(stk, authWrap(thrownBy(f)))
            IN IF Len(stk) = 1 THEN [r EXCEPT !.recent = recent] ELSE r

\* ------------------------------------------------------------ Node actions
\* a request of a new activation of requestWithRetry is sent
PushCall(stk, ep, cont) == Append(stk, [Frame(ep, cont) EXCEPT !.attempts = 1])
\* `continue`: the loop sends the request again
Resend(stk) == SetTop(stk, [Top(stk) EXCEPT !.attempts = @ + 1])

\* tasks whose retry loop has an auth.refreshToken() call in flight
Refreshing(p) == \E i \in 1..Len(task[p].stack) : task[p].stack[i].cont = "rf_auth"

\* the task ends: its caller gets result r
Finished(t, stk, r, recent) ==
    [t EXCEPT !.pc = "done", !.stack = <<>>, !.result = r, !.call = stk[1],
              !.recent = recent, !.pend = NoPend]

\* Caller p may make its call: callers are numbered in the order in which
\* they call, and a sequential program awaits each call before the next.
MayStart(p) ==
    /\ task[p].pc = "idle"
    /\ \A q \in Procs : q < p => task[q].pc # "idle"
    /\ sequential => \A q \in Procs : task[q].pc \in {"idle", "done"}

\* BaseResource.getHeaders -> Authentication.getAccessToken, first part:
\* the in-memory token is used when there is one, else the cache is asked.
NodeStart(p) ==
    /\ impl = "node"
    /\ MayStart(p)
    /\ IF Truthy(accessToken)
       THEN task' = [task EXCEPT ![p].hdr = accessToken,
                                 ![p].stack = PushCall(<<>>, "api", "top"),
                                 ![p].pc = "recv"]
       ELSE task' = [task EXCEPT ![p].pc = "ga_cache"]
    /\ UNCHANGED <<impl, maxRetries, autoReauth, isRefreshingToken, accessToken,
                   tokenExpiry, cache, now, tokenSeq, authCalls, sequential, lifetimes, probe, auth>>

\* getAccessToken resumes after `await this.cache.get(...)`: a live entry is
\* promoted to memory and used, otherwise authenticate() sends a token request.
NodeCacheGet(p) ==
    /\ impl = "node"
    /\ task[p].pc = "ga_cache"
    /\ IF cacheHas(cache, now) /\ Truthy(cache.value)
       THEN /\ accessToken' = cache.value
            /\ task' = [task EXCEPT ![p].hdr = cache.value,
                                    ![p].stack = PushCall(<<>>, "api", "top"),
                                    ![p].pc = "recv"]
            /\ UNCHANGED <<cache, authCalls>>
       ELSE /\ cache' = IF cacheHas(cache, now) THEN cache ELSE NoEntry
            /\ authCalls' = authCalls + 1
            /\ task' = [task EXCEPT ![p].stack = PushCall(<<>>, "token", "ga_auth"),
                                    ![p].pc = "recv"]
            /\ UNCHANGED accessToken
    /\ UNCHANGED <<impl, maxRetries, autoReauth, isRefreshingToken,
                   tokenExpiry, now, tokenSeq, sequential, lifetimes, probe, auth>>

\* a call chain of task p ends with an exception
NodeThrow(p, stk, r) ==
    /\ task' = [task EXCEPT ![p] = Finished(task[p], stk, r.result, r.recent)]
    /\ isRefreshingToken' = IF r.released THEN FALSE ELSE isRefreshingToken

\* The response of the request in flight arrives: Client.request returns or
\* throws, and requestWithRetry (and authenticate, for a token request) goes
\* on to its next await.
NodeRecv(p, status, body, expiresIn) ==
    /\ impl = "node"
    /\ task[p].pc = "recv"
    /\ LET t == task[p]
           d == Len(t.stack)
           f == [Top(t.stack) EXCEPT !.seen = @ \cup {status}]
           stk == SetTop(t.stack, f)
           e == requestError(status, f.ep, d)
           fe == [f EXCEPT !.last = e]
           stke == SetTop(stk, fe)
       IN /\ status \in (IF f.ep = "api" THEN ApiStatuses ELSE TokenStatuses)
          /\ IF status = 200
             THEN IF f.ep = "api"
                  THEN \* return await this.request(...)
                       /\ body = "ok" /\ expiresIn = 0
                       /\ task' = [task EXCEPT ![p] =
                                     Finished(t, stk, ResponseResult(status), NoExc)]
                       /\ UNCHANGED <<isRefreshingToken, accessToken, tokenSeq>>
                  ELSE \* authenticate() looks at the token response
                       CASE body = "notSuccess" ->
                              /\ expiresIn = 0
                              /\ NodeThrow(p, stk, nodeAuthThrow(stk,
                                     Exc("Authentication", status, "token", d)))
                              /\ UNCHANGED <<accessToken, tokenSeq>>
                         [] body = "noToken" ->
                              /\ expiresIn = 0
                              /\ accessToken' = Undefined
                              /\ NodeThrow(p, stk, nodeAuthThrow(stk,
                                     Exc("Authentication", 0, "token", d)))
                              /\ UNCHANGED tokenSeq
                         [] body = "ok" ->
                              /\ tokenSeq < MaxTokens
                              /\ expiresIn \in lifetimes
                              /\ LET life == IF expiresIn # 0 THEN expiresIn
                                             ELSE DEFAULT_EXPIRES_IN
                                     tok == [id |-> tokenSeq + 1, exp |-> now + life]
                                 IN /\ accessToken' = tok
                                    /\ tokenSeq' = tokenSeq + 1
                                    /\ task' = [task EXCEPT
                                         ![p].stack = stk,
                                         ![p].pend = [tok |-> tok,
                                                      ttl |-> life - NODE_CACHE_BUFFER],
                                         ![p].pc = "au_set"]
                              /\ UNCHANGED isRefreshingToken
             ELSE /\ body = "ok" /\ expiresIn = 0
                  /\ UNCHANGED tokenSeq
                  /\ IF e.kind = "Authentication"
                     THEN IF canReauth(f.retryCount, maxRetries, autoReauth)
                          THEN IF refreshNeeded(isRefreshingToken)
                               THEN \* refreshToken(): memory cleared, cache.delete awaited
                                    /\ isRefreshingToken' = TRUE
                                    /\ accessToken' = Null
                                    /\ task' = [task EXCEPT
                                         ![p].stack = SetTop(stk,
                                            [fe EXCEPT !.retryCount = @ + 1,
                                                       !.refreshes = @ + 1]),
                                         ![p].pc = "rf_del"]
                               ELSE /\ task' = [task EXCEPT
                                         ![p].stack = SetTop(stk,
                                            [fe EXCEPT !.retryCount = @ + 1]),
                                         ![p].pc = "auth_sleep"]
                                    /\ UNCHANGED <<isRefreshingToken, accessToken>>
                          ELSE /\ NodeThrow(p, stke, nodeRwrThrow(stke, e))
                               /\ UNCHANGED accessToken
                     ELSE IF shouldRetry(e, f.retryCount, maxRetries)
                          THEN /\ task' = [task EXCEPT
                                    ![p].stack = SetTop(stk,
                                       [fe EXCEPT !.retryCount = @ + 1]),
                                    ![p].pc = "backoff"]
                               /\ UNCHANGED <<isRefreshingToken, accessToken>>
                          ELSE /\ NodeThrow(p, stke, nodeRwrThrow(stke, e))
                               /\ UNCHANGED accessToken
    /\ UNCHANGED <<impl, maxRetries, autoReauth, tokenExpiry, cache, now, authCalls,
                   sequential, lifetimes, probe, auth>>

\* refreshToken resumes after `await this.cache.delete(...)` and calls
\* authenticate(), which sends a token request through client.post.
NodeCacheDelete(p) ==
    /\ impl = "node"
    /\ task[p].pc = "rf_del"
    /\ Len(task[p].stack) < MaxDepth
    /\ cache' = cacheDelete(cache)
    /\ authCalls' = authCalls + 1
    /\ task' = [task EXCEPT ![p].stack = PushCall(@, "token", "rf_auth"),
                            ![p].pc = "recv"]
    /\ UNCHANGED <<impl, maxRetries, autoReauth, isRefreshingToken, accessToken,
                   tokenExpiry, now, tokenSeq, sequential, lifetimes, probe, auth>>

\* authenticate resumes after `await this.cache.set(...)` and returns to
\* getAccessToken (which hands this.accessToken to getHeaders) or to the
\* retry loop that awaits refreshToken().
NodeCacheSet(p) ==
    /\ impl = "node"
    /\ task[p].pc = "au_set"
    /\ LET t == task[p]
           f == Top(t.stack)
       IN /\ cache' = [present |-> TRUE, value |-> t.pend.tok,
                       expiresAt |-> now + t.pend.ttl]
          /\ IF f.cont = "rf_auth"
             THEN task' = [task EXCEPT ![p].stack = Pop(t.stack),
                                       ![p].pend = NoPend,
                                       ![p].pc = "rf_sleep"]
             ELSE IF Truthy(accessToken)
                  THEN task' = [task EXCEPT ![p].hdr = accessToken,
                                            ![p].pend = NoPend,
                                            ![p].stack = PushCall(<<>>, "api", "top"),
                                            ![p].pc = "recv"]
                  ELSE \* getHeaders: "Access token is required for request headers"
                       task' = [task EXCEPT ![p] =
                                  Finished(t, t.stack, Exc("Error", 0, "none", 0), NoExc)]
    /\ UNCHANGED <<impl, maxRetries, autoReauth, isRefreshingToken, accessToken,
                   tokenExpiry, now, tokenSeq, authCalls, sequential, lifetimes, probe, auth>>

\* a sleep of the retry loop ends and the loop sends the request again; the
\* task that refreshed releases isRefreshingToken first
NodeWake(p) ==
    /\ impl = "node"
    /\ task[p].pc \in {"backoff", "auth_sleep", "rf_sleep"}
    /\ LET stk == task[p].stack
           f == Top(stk)
       IN IF loopContinues(f.retryCount, maxRetries)
          THEN /\ task' = [task EXCEPT ![p].stack = Resend(@), ![p].pc = "recv"]
               /\ isRefreshingToken' = IF task[p].pc = "rf_sleep" THEN FALSE
                                       ELSE isRefreshingToken
          ELSE LET r == nodeRwrThrow(stk, f.last)
               IN /\ task' = [task EXCEPT ![p] =
                                Finished(task[p], stk, r.result, r.recent)]
                  /\ isRefreshingToken' =
                        IF task[p].pc = "rf_sleep" \/ r.released THEN FALSE
                        ELSE isRefreshingToken
    /\ UNCHANGED <<impl, maxRetries, autoReauth, accessToken, tokenExpiry,
                   cache, now, tokenSeq, authCalls, sequential, lifetimes, probe, auth>>

\* ------------------------------------------------------------- PHP actions
\* Authentication::isTokenValid
isTokenValid(token, expiry, t) ==
    IF ~Truthy(token) \/ expiry = 0 THEN FALSE
    ELSE t < expiry - EXPIRY_MARGIN

\* the catch block of Authentication::requestNewToken: every exception is
\* rethrown as a new AuthenticationException with code 0
phpAuthWrap(e) == Exc("Authentication", 0, e.ep, e.depth)

\* Unwinding of a PHP call chain: the top activation of requestWithRetry
\* throws `thrown` when the error of its last failed step is `recent`.
RECURSIVE phpRwrThrow(_, _, _)
phpRwrThrow(stk, thrown, recent) ==
    LET f == Top(stk)
        w == phpAuthWrap(thrown)
    IN IF f.cont = "top"
       THEN [result |-> thrown, recent |-> recent]
       ELSE IF f.cont = "rf_auth"
            THEN \* refreshToken() throws inside catch (AuthenticationException $e)
                 phpRwrThrow(Pop(stk), w, w)
            ELSE [result |-> w, recent |-> recent]

\* requestNewToken() on top of the stack throws e (already wrapped)
phpAuthThrow(stk, e) ==
    IF Top(stk).cont = "rf_auth" THEN phpRwrThrow(Pop(stk), e, e)
    ELSE [result |-> e, recent |-> NoExc]

\* getHeaders -> Authentication::getAccessToken: memory, then cache, then a
\* token request; the call is synchronous up to its first HTTP exchange.
PhpStart(p) ==
    /\ impl = "php"
    /\ MayStart(p)
    /\ IF isTokenValid(accessToken, tokenExpiry, now)
       THEN /\ task' = [task EXCEPT ![p].hdr = accessToken,
                                    ![p].stack = PushCall(<<>>, "api", "top"),
                                    ![p].pc = "recv"]
            /\ UNCHANGED <<accessToken, tokenExpiry, cache, authCalls>>
       ELSE IF cacheHas(cache, now)
               /\ isTokenValid(cache.value, cache.value.exp, now)
            THEN /\ accessToken' = cache.value
                 /\ tokenExpiry' = cache.value.exp
                 /\ task' = [task EXCEPT ![p].hdr = cache.value,
                                         ![p].stack = PushCall(<<>>, "api", "top"),
                                         ![p].pc = "recv"]
                 /\ UNCHANGED <<cache, authCalls>>
            ELSE /\ cache' = IF cacheHas(cache, now) THEN cache ELSE NoEntry
                 /\ authCalls' = authCalls + 1
                 /\ task' = [task EXCEPT ![p].stack = PushCall(<<>>, "token", "ga_auth"),
                                         ![p].pc = "recv"]
                 /\ UNCHANGED <<accessToken, tokenExpiry>>
    /\ UNCHANGED <<impl, maxRetries, autoReauth, isRefreshingToken, now, tokenSeq,
                   sequential, lifetimes, probe, auth>>

PhpThrow(p, stk, r) ==
    task' = [task EXCEPT ![p] = Finished(task[p], stk, r.result, r.recent)]

\* `continue`: the loop condition is checked and the request sent again
PhpContinue(p, stk) ==
    IF loopContinues(Top(stk).retryCount, maxRetries)
    THEN task' = [task EXCEPT ![p].stack = Resend(stk)]
    ELSE PhpThrow(p, stk, phpRwrThrow(stk, thrownBy(Top(stk)), Top(stk).last))

\* The HTTP exchange of the blocked call ends: Client::request returns or
\* throws and the call runs on to its next HTTP exchange or to its end.
PhpRecv(p, status, body, expiresIn) ==
    /\ impl = "php"
    /\ task[p].pc = "recv"
    /\ LET t == task[p]
           d == Len(t.stack)
           f == [Top(t.stack) EXCEPT !.seen = @ \cup {status}]
           stk == SetTop(t.stack, f)
           e == phpRequestError(status, f.ep, d)
           fe == [f EXCEPT !.last = e]
           stke == SetTop(stk, fe)
       IN /\ status \in (IF f.ep = "api" THEN ApiStatuses ELSE TokenStatuses)
          /\ expiresIn \in lifetimes \cup {0}
          /\ IF status = 200
             THEN IF f.ep = "api"
                  THEN /\ body = "ok" /\ expiresIn = 0
                       /\ task' = [task EXCEPT ![p] =
                                     Finished(t, stk, ResponseResult(status), NoExc)]
                       /\ UNCHANGED <<accessToken, tokenExpiry, cache, tokenSeq,
                                      authCalls>>
                  ELSE IF body # "ok"
                       THEN \* not a success, or no access_token in the data
                            /\ expiresIn = 0
                            /\ PhpThrow(p, stk, phpAuthThrow(stk,
                                   Exc("Authentication", 0, "token", d)))
                            /\ UNCHANGED <<accessToken, tokenExpiry, cache, tokenSeq,
                                           authCalls>>
                       ELSE /\ tokenSeq < MaxTokens
                            /\ expiresIn \in lifetimes
                            /\ LET life == IF expiresIn # 0 THEN expiresIn
                                           ELSE DEFAULT_EXPIRES_IN
                                   tok == [id |-> tokenSeq + 1, exp |-> now + life]
                               IN /\ accessToken' = tok
                                  /\ tokenExpiry' = now + life
                                  /\ tokenSeq' = tokenSeq + 1
                                  \* cacheToken: $ttl = $expiry - time() - 120
                                  /\ cache' = [present |-> TRUE, value |-> tok,
                                               expiresAt |-> now + (tok.exp - now
                                                              - PHP_CACHE_BUFFER)]
                                  /\ IF f.cont = "rf_auth"
                                     THEN \* $retryCount++; usleep; continue
                                          PhpContinue(p, SetTop(Pop(stk),
                                               [Top(Pop(stk)) EXCEPT
                                                   !.retryCount = @ + 1]))
                                     ELSE task' = [task EXCEPT
                                             ![p].hdr = tok,
                                             ![p].stack = PushCall(<<>>, "api", "top")]
                            /\ UNCHANGED authCalls
             ELSE /\ body = "ok" /\ expiresIn = 0
                  /\ UNCHANGED tokenSeq
                  /\ IF e.kind = "Authentication"
                     THEN IF canReauth(f.retryCount, maxRetries, autoReauth)
                          THEN \* $this->auth->refreshToken()
                               /\ d < MaxDepth
                               /\ accessToken' = Null
                               /\ tokenExpiry' = 0
                               /\ cache' = cacheDelete(cache)
                               /\ authCalls' = authCalls + 1
                               /\ task' = [task EXCEPT ![p].stack =
                                     PushCall(SetTop(stk,
                                        [f EXCEPT !.refreshes = @ + 1]),
                                        "token", "rf_auth")]
                          ELSE /\ PhpThrow(p, stk, phpRwrThrow(stk, e, e))
                               /\ UNCHANGED <<accessToken, tokenExpiry, cache,
                                              authCalls>>
                     ELSE /\ UNCHANGED <<accessToken, tokenExpiry, cache, authCalls>>
                          /\ IF e.kind = "Api"
                                /\ phpShouldRetry(e, f.retryCount, maxRetries)
                             THEN PhpContinue(p, SetTop(stk,
                                        [fe EXCEPT !.retryCount = @ + 1]))
                             ELSE PhpThrow(p, stke, phpRwrThrow(stke, thrownBy(fe), e))
    /\ UNCHANGED <<impl, maxRetries, autoReauth, isRefreshingToken, now,
                   sequential, lifetimes, probe, auth>>

\* ------------------------------------------------------------------- clock
\* time passes between two calls; the clock is observed in steps of the
\* expiry margin, and a call chain is taken to end within one step
Tick ==
    /\ \A p \in Procs : task[p].pc \in {"idle", "done"}
    /\ now + EXPIRY_MARGIN <= MaxTime
    /\ now' = now + EXPIRY_MARGIN
    /\ UNCHANGED <<impl, maxRetries, autoReauth, isRefreshingToken, accessToken,
                   tokenExpiry, cache, tokenSeq, task, authCalls, sequential,
                   lifetimes, probe, auth>>

\* ------------------------------------- Authentication instances, one cache
\* Authentication objects that share one cache backend.  Each operation of
\* the class is taken as a whole; client.post is its outcome: a token
\* response of some shape, or the exception requestWithRetry throws.
Insts == {1, 2}
\* (clientId, clientSecret) pairs
CredentialPairs == {<<"a", "bc">>, <<"ab", "c">>, <<"x", "y">>}
PostOutcomes == {"ok", "noToken", "notSuccess", "Api", "Authentication", "Validation"}

\* md5 is taken to be free of collisions: a digest stands for its input
md5(s) == "md5:" \o s
\* the cache key of Authentication.js: one fixed name
nodeCacheKey(cred) == [name |-> "access_token", digest |-> ""]
\* Authentication::getCacheKey: prefix . md5(clientId . clientSecret)
getCacheKey(cred) == [name |-> "singapay_token_", digest |-> md5(cred[1] \o cred[2])]
CacheKeys ==
    {nodeCacheKey(c) : c \in CredentialPairs} \cup {getCacheKey(c) : c \in CredentialPairs}

NoOwner == <<"", "">>
NoLast == [op |-> "none", inst |-> 0, kind |-> "none", ret |-> Null,
           posted |-> FALSE, hadClient |-> FALSE, removed |-> NoOwner]
NoAuth == [creds |-> <<>>, client |-> <<>>, mem |-> <<>>, expiry |-> <<>>,
           store |-> <<>>, down |-> FALSE, issued |-> 0, last |-> NoLast]

\* the operation ends: kind "ok" returns ret, any other kind is the class of
\* the exception thrown; posted tells whether client.post was called
Ended(a, kind, ret, posted) ==
    [a EXCEPT !.last.kind = kind, !.last.ret = ret, !.last.posted = posted]

\* the token the endpoint issues for the credentials of instance i
issuedToken(a, i, t) ==
    [id |-> a.issued + 1, exp |-> t + DEFAULT_EXPIRES_IN, owner |-> a.creds[i]]

\* mutation: the missing client goes unnoticed
noClientIgnored(attached) == FALSE

\* `if (!this.client)` / `if ($this->client === null)`
noClient(attached) == ~attached

\* Authentication.authenticate (Node)
nodeAuthenticate(a, i, o, t) ==
    IF noClient(a.client[i]) THEN Ended(a, "Authentication", Null, FALSE)
    ELSE IF o \in {"Api", "Authentication", "Validation"}
    THEN Ended(a, authWrap(Exc(o, 0, "token", 1)).kind, Null, TRUE)
    ELSE IF o = "notSuccess" THEN Ended(a, "Authentication", Null, TRUE)
    ELSE IF o = "noToken"
    THEN Ended([a EXCEPT !.mem[i] = Undefined], "Authentication", Null, TRUE)
    ELSE LET tok == issuedToken(a, i, t)
             b == [a EXCEPT !.mem[i] = tok, !.issued = @ + 1]
         IN IF a.down
            THEN \* cache.set throws inside the try block
                 Ended(b, authWrap(Exc("Error", 0, "none", 0)).kind, Null, TRUE)
            ELSE Ended([b EXCEPT !.store[nodeCacheKey(a.creds[i])] =
                           [present |-> TRUE, value |-> tok,
                            expiresAt |-> t + (DEFAULT_EXPIRES_IN - NODE_CACHE_BUFFER)]],
                       "ok", tok, TRUE)

\* Authentication.getAccessToken (Node)
nodeGetAccessToken(a, i, o, t) ==
    IF Truthy(a.mem[i]) THEN Ended(a, "ok", a.mem[i], FALSE)
    ELSE IF a.down THEN Ended(a, "Error", Null, FALSE)
    ELSE LET e == a.store[nodeCacheKey(a.creds[i])]
         IN IF cacheHas(e, t) /\ Truthy(e.value)
            THEN Ended([a EXCEPT !.mem[i] = e.value], "ok", e.value, FALSE)
            ELSE LET b == nodeAuthenticate(a, i, o, t)
                 IN IF b.last.kind = "ok" THEN [b EXCEPT !.last.ret = b.mem[i]] ELSE b

\* Authentication.refreshToken (Node)
nodeRefreshToken(a, i, o, t) ==
    LET b == [a EXCEPT !.mem[i] = Null]
        k == nodeCacheKey(a.creds[i])
    IN IF a.down THEN Ended(b, "Error", Null, FALSE)
       ELSE nodeAuthenticate(
               [b EXCEPT !.store[k] = cacheDelete(@),
                         !.last.removed = IF a.store[k].present
                                          THEN a.store[k].value.owner ELSE NoOwner],
               i, o, t)

\* Authentication::requestNewToken (PHP)
requestNewToken(a, i, o, t) ==
    IF noClient(a.client[i]) THEN Ended(a, "Runtime", Null, FALSE)
    ELSE IF o # "ok" THEN Ended(a, phpAuthWrap(Exc(o, 0, "token", 1)).kind, Null, TRUE)
    ELSE LET tok == issuedToken(a, i, t)
             b == [a EXCEPT !.mem[i] = tok, !.expiry[i] = tok.exp, !.issued = @ + 1]
         IN IF a.down
            THEN Ended(b, phpAuthWrap(Exc("Error", 0, "none", 0)).kind, Null, TRUE)
            ELSE Ended([b EXCEPT !.store[getCacheKey(a.creds[i])] =
                           [present |-> TRUE, value |-> tok,
                            expiresAt |-> t + (tok.exp - t - PHP_CACHE_BUFFER)]],
                       "ok", tok, TRUE)

\* Authentication::getAccessToken (PHP)
phpGetAccessToken(a, i, o, t) ==
    IF isTokenValid(a.mem[i], a.expiry[i], t) THEN Ended(a, "ok", a.mem[i], FALSE)
    ELSE IF a.down THEN Ended(a, "Error", Null, FALSE)
    ELSE LET e == a.store[getCacheKey(a.creds[i])]
         IN IF cacheHas(e, t) /\ isTokenValid(e.value, e.value.exp, t)
            THEN Ended([a EXCEPT !.mem[i] = e.value, !.expiry[i] = e.value.exp],
                       "ok", e.value, FALSE)
            ELSE requestNewToken(a, i, o, t)

\* Authentication::refreshToken (PHP)
phpRefreshToken(a, i, o, t) ==
    LET b == [a EXCEPT !.mem[i] = Null, !.expiry[i] = 0]
        k == getCacheKey(a.creds[i])
    IN IF a.down THEN Ended(b, "Error", Null, FALSE)
       ELSE requestNewToken(
               [b EXCEPT !.store[k] = cacheDelete(@),
                         !.last.removed = IF a.store[k].present
                                          THEN a.store[k].value.owner ELSE NoOwner],
               i, o, t)

\* Authentication.isAuthenticated (Node)
isAuthenticated(token) == token # Null

\* the call op of instance i begins
Called(a, op, i) ==
    [a EXCEPT !.last = [NoLast EXCEPT !.op = op, !.inst = i, !.hadClient = a.client[i]]]

AuthUnchanged ==
    UNCHANGED <<impl, maxRetries, autoReauth, isRefreshingToken, accessToken,
                tokenExpiry, cache, now, tokenSeq, task, authCalls, sequential,
                lifetimes, probe>>

GetAccessToken(i, o) ==
    /\ o = "ok" => auth.issued < MaxTokens
    /\ auth' = IF impl = "node"
               THEN nodeGetAccessToken(Called(auth, "getAccessToken", i), i, o, now)
               ELSE phpGetAccessToken(Called(auth, "getAccessToken", i), i, o, now)
    /\ AuthUnchanged

\* authenticate() is public in Node; PHP reaches requestNewToken through
\* getAccessToken and refreshToken only
Authenticate(i, o) ==
    /\ impl = "node"
    /\ o = "ok" => auth.issued < MaxTokens
    /\ auth' = nodeAuthenticate(Called(auth, "authenticate", i), i, o, now)
    /\ AuthUnchanged

RefreshToken(i, o) ==
    /\ o = "ok" => auth.issued < MaxTokens
    /\ auth' = IF impl = "node"
               THEN nodeRefreshToken(Called(auth, "refreshToken", i), i, o, now)
               ELSE phpRefreshToken(Called(auth, "refreshToken", i), i, o, now)
    /\ AuthUnchanged

\* Authentication.setClient
SetClient(i) ==
    /\ ~auth.client[i]
    /\ auth' = [Called(auth, "setClient", i) EXCEPT !.client[i] = TRUE]
    /\ AuthUnchanged

\* ---------------------------------------------------------- specifications
InitState ==
    /\ isRefreshingToken = FALSE
    /\ accessToken = Null
    /\ tokenExpiry = 0
    /\ cache = NoEntry
    /\ now = 0
    /\ tokenSeq = 0
    /\ task = [p \in Procs |-> IdleTask]
    /\ authCalls = 0

NoProbe == [op |-> "none", status |-> 0, bodyErrors |-> "absent", retryCount |-> 0,
            maxR |-> 0, exc |-> NoExc, errors |-> "none", retry |-> FALSE]

\* Successive calls of one client (Node or PHP), each awaited before the
\* next; the clock stands still.
Init ==
    /\ impl \in {"node", "php"}
    /\ maxRetries \in 0..MaxRetriesBound
    /\ autoReauth \in BOOLEAN
    /\ sequential = TRUE
    /\ lifetimes = {0}
    /\ probe = NoProbe
    /\ auth = NoAuth
    /\ InitState

NodeNext ==
    \/ \E p \in Procs : NodeStart(p)
    \/ \E p \in Procs : NodeCacheGet(p)
    \/ \E p \in Procs : \E s \in ApiStatuses \cup TokenStatuses :
          \E b \in TokenBodies : \E x \in ExpiresInChoices : NodeRecv(p, s, b, x)
    \/ \E p \in Procs : NodeCacheDelete(p)
    \/ \E p \in Procs : NodeCacheSet(p)
    \/ \E p \in Procs : NodeWake(p)

PhpNext ==
    \/ \E p \in Procs : PhpStart(p)
    \/ \E p \in Procs : \E s \in ApiStatuses \cup TokenStatuses :
          \E b \in TokenBodies : \E x \in ExpiresInChoices : PhpRecv(p, s, b, x)

Next == NodeNext \/ PhpNext

Spec == Init /\ [][Next]_vars

\* Concurrent callers of one Node client, interleaved at their await points.
InitConc ==
    /\ impl = "node"
    /\ maxRetries \in 1..MaxRetriesConc
    /\ autoReauth = TRUE
    /\ sequential = FALSE
    /\ lifetimes = {0}
    /\ probe = NoProbe
    /\ auth = NoAuth
    /\ InitState

SpecConc == InitConc /\ [][NodeNext]_vars

\* Successive calls while time passes and tokens expire.
InitTime ==
    /\ impl \in {"node", "php"}
    /\ maxRetries = 1
    /\ autoReauth = TRUE
    /\ sequential = TRUE
    /\ lifetimes = ExpiresInChoices
    /\ probe = NoProbe
    /\ auth = NoAuth
    /\ InitState

NextTime == Next \/ Tick

SpecTime == InitTime /\ [][NextTime]_vars

\* Calls on two Authentication instances with different credentials and one
\* shared cache backend, which may be out of reach (every operation throws).
InitAuth ==
    /\ impl \in {"node", "php"}
    /\ maxRetries = 0
    /\ autoReauth = FALSE
    /\ sequential = TRUE
    /\ lifetimes = {0}
    /\ probe = NoProbe
    /\ \E c \in [Insts -> CredentialPairs], cl \in [Insts -> BOOLEAN], d \in BOOLEAN :
          /\ c[1] # c[2]
          /\ auth = [creds |-> c, client |-> cl,
                     mem |-> [i \in Insts |-> Null],
                     expiry |-> [i \in Insts |-> 0],
                     store |-> [k \in CacheKeys |-> NoEntry],
                     down |-> d, issued |-> 0, last |-> NoLast]
    /\ InitState

NextAuth ==
    \/ \E i \in Insts : \E o \in PostOutcomes : GetAccessToken(i, o)
    \/ \E i \in Insts : \E o \in PostOutcomes : Authenticate(i, o)
    \/ \E i \in Insts : \E o \in PostOutcomes : RefreshToken(i, o)
    \/ \E i \in Insts : SetClient(i)

SpecAuth == InitAuth /\ [][NextAuth]_vars

\* ------------------------------------------------- pure functions, applied
\* statuses of failed exchanges handed to Client.request's catch block and
\* to shouldRetry; 0 is a transport failure without a response
ProbeStatuses == {0, 400, 401, 403, 404, 408, 422, 429, 500, 501, 502, 503, 504}
ProbeErrors == {"absent", "map1", "map2"}
MaxProbeRetries == 3

\* Client.request fails with this status and body
ProbeRequest ==
    /\ probe.op = "none"
    /\ LET e == IF impl = "node" THEN requestError(probe.status, "api", 1)
                ELSE phpRequestError(probe.status, "api", 1)
       IN probe' = [probe EXCEPT !.op = "request", !.exc = e,
                       !.errors = IF e.kind = "Validation"
                                  THEN validationErrors(probe.bodyErrors)
                                  ELSE "none"]
    /\ UNCHANGED <<impl, maxRetries, autoReauth, isRefreshingToken, accessToken,
                   tokenExpiry, cache, now, tokenSeq, task, authCalls, sequential,
                   lifetimes, auth>>

\* shouldRetry is asked about the exception of that failure
ProbeShouldRetry ==
    /\ probe.op = "request"
    /\ probe' = [probe EXCEPT !.op = "shouldRetry",
                    !.retry = IF impl = "node"
                              THEN shouldRetry(probe.exc, probe.retryCount, probe.maxR)
                              ELSE phpShouldRetry(probe.exc, probe.retryCount, probe.maxR)]
    /\ UNCHANGED <<impl, maxRetries, autoReauth, isRefreshingToken, accessToken,
                   tokenExpiry, cache, now, tokenSeq, task, authCalls, sequential,
                   lifetimes, auth>>

InitFn ==
    /\ impl \in {"node", "php"}
    /\ maxRetries = 0
    /\ autoReauth = FALSE
    /\ sequential = TRUE
    /\ lifetimes = {0}
    /\ \E s \in ProbeStatuses, b \in ProbeErrors,
          r \in 0..MaxProbeRetries, m \in 0..MaxProbeRetries :
          probe = [NoProbe EXCEPT !.status = s, !.bodyErrors = b,
                                  !.retryCount = r, !.maxR = m]
    /\ auth = NoAuth
    /\ InitState

NextFn == ProbeRequest \/ ProbeShouldRetry

SpecFn == InitFn /\ [][NextFn]_vars

\* ------------------------------------------------------------ configuration
\* Config as built by `new Config(config)`: the constructor assigns the
\* fields, then validate() throws or returns.  Only the camelCase (Node) and
\* snake_case (PHP) spelling of each key is modelled, one spelling per key.
Absent == "<absent>"
ENV_SANDBOX == "sandbox"
ENV_PRODUCTION == "production"
DEFAULT_TIMEOUT == 30
DEFAULT_MAX_RETRIES == 3
DEFAULT_RETRY_DELAY == 1000
DEFAULT_AUTO_REAUTH == TRUE
ConfigStrings == {Absent, "", "v"}
ConfigEnvironments == {Absent, "", "sandbox", "production", "staging"}
NoNumber == [given |-> FALSE, value |-> 0]
ConfigRetries == {NoNumber} \cup {[given |-> TRUE, value |-> n] : n \in {-1, 0, 2}}
ConfigTimeouts == {NoNumber, [given |-> TRUE, value |-> 0],
                   [given |-> TRUE, value |-> 10]}
\* an optional boolean: not given, false, true
ConfigFlags == {Absent, "false", "true"}
NoConfig == [clientId |-> Absent, clientSecret |-> Absent, apiKey |-> Absent,
             environment |-> Absent, timeout |-> 0, maxRetries |-> 0,
             retryDelay |-> 0, autoReauth |-> FALSE]

\* JavaScript `a || d` on an optional string: undefined and "" are falsy
jsOr(v, d) == IF v \in {Absent, ""} THEN d ELSE v
\* mutation: a missing number is read as 0 instead of the default
jsOrNumberNoDefault(n, d) == n.value
\* JavaScript `a || d` on an optional number: undefined and 0 are falsy
jsOrNumber(n, d) == IF ~n.given \/ n.value = 0 THEN d ELSE n.value
\* PHP `$a ?? $d`: only an unset key or null gives the default
phpCoalesce(v, d) == IF v = Absent THEN d ELSE v
phpCoalesceNumber(n, d) == IF n.given THEN n.value ELSE d
\* `a ?? d` on an optional boolean, the same in both languages
coalesceFlag(f, d) == IF f = Absent THEN d ELSE f = "true"

\* Config constructor, Node: the assignments before validate()
nodeConfig(c) ==
    [clientId |-> jsOr(c.clientId, Absent),
     clientSecret |-> jsOr(c.clientSecret, Absent),
     apiKey |-> jsOr(c.apiKey, Absent),
     environment |-> jsOr(c.environment, ENV_SANDBOX),
     timeout |-> jsOrNumber(c.timeout, DEFAULT_TIMEOUT),
     maxRetries |-> jsOrNumber(c.maxRetries, DEFAULT_MAX_RETRIES),
     retryDelay |-> jsOrNumber(c.retryDelay, DEFAULT_RETRY_DELAY),
     autoReauth |-> coalesceFlag(c.autoReauth, DEFAULT_AUTO_REAUTH)]

\* Config::__construct, PHP: the assignments before validate()
phpConfig(c) ==
    [clientId |-> phpCoalesce(c.clientId, Absent),
     clientSecret |-> phpCoalesce(c.clientSecret, Absent),
     apiKey |-> phpCoalesce(c.apiKey, Absent),
     environment |-> phpCoalesce(c.environment, ENV_SANDBOX),
     timeout |-> phpCoalesceNumber(c.timeout, DEFAULT_TIMEOUT),
     maxRetries |-> phpCoalesceNumber(c.maxRetries, DEFAULT_MAX_RETRIES),
     retryDelay |-> phpCoalesceNumber(c.retryDelay, DEFAULT_RETRY_DELAY),
     autoReauth |-> coalesceFlag(c.autoReauth, DEFAULT_AUTO_REAUTH)]

\* mutation: validate() without its maxRetries test
validateAnyRetries(cfg) ==
    IF \E f \in {"clientId", "clientSecret", "apiKey"} : cfg[f] \in {Absent, ""}
    THEN "required"
    ELSE IF cfg.environment \notin {ENV_SANDBOX, ENV_PRODUCTION}
    THEN "environment"
    ELSE "ok"

\* validate(): `!this[field]` in Node and `empty($this->$field)` in PHP both
\* reject null and ""; then the environment, then maxRetries
validate(cfg) ==
    IF \E f \in {"clientId", "clientSecret", "apiKey"} : cfg[f] \in {Absent, ""}
    THEN "required"
    ELSE IF cfg.environment \notin {ENV_SANDBOX, ENV_PRODUCTION}
    THEN "environment"
    ELSE IF cfg.maxRetries < 0
    THEN "maxRetries"
    ELSE "ok"

\* `new SingaPay(config)`: `this.config = new Config(config)` is the first
\* statement; when it throws nothing else of the constructor runs
NewConfig ==
    /\ probe.op = "none"
    /\ LET cfg == IF impl = "node" THEN nodeConfig(probe.input)
                  ELSE phpConfig(probe.input)
           err == validate(cfg)
       IN probe' = [probe EXCEPT !.op = "new", !.error = err,
                       !.config = IF err = "ok" THEN cfg ELSE NoConfig]
    /\ UNCHANGED <<impl, maxRetries, autoReauth, isRefreshingToken, accessToken,
                   tokenExpiry, cache, now, tokenSeq, task, authCalls, sequential,
                   lifetimes, auth>>

\* the built client is used: Config.getMaxRetries / getEnvironment are read
UseConfig ==
    /\ probe.op = "new"
    /\ probe.error = "ok"
    /\ probe' = [probe EXCEPT !.op = "used"]
    /\ maxRetries' = probe.config.maxRetries
    /\ autoReauth' = probe.config.autoReauth
    /\ UNCHANGED <<impl, isRefreshingToken, accessToken,
                   tokenExpiry, cache, now, tokenSeq, task, authCalls, sequential,
                   lifetimes, auth>>

InitCfg ==
    /\ impl \in {"node", "php"}
    /\ maxRetries = 0
    /\ autoReauth = FALSE
    /\ sequential = TRUE
    /\ lifetimes = {0}
    /\ \E id \in ConfigStrings, secret \in ConfigStrings, key \in ConfigStrings,
          env \in ConfigEnvironments, r \in ConfigRetries,
          t \in ConfigTimeouts, f \in ConfigFlags :
          probe = [op |-> "none",
                   input |-> [clientId |-> id, clientSecret |-> secret,
                              apiKey |-> key, environment |-> env,
                              timeout |-> t, maxRetries |-> r,
                              retryDelay |-> NoNumber, autoReauth |-> f],
                   error |-> "none", config |-> NoConfig]
    /\ auth = NoAuth
    /\ InitState

NextCfg == NewConfig \/ UseConfig

SpecCfg == InitCfg /\ [][NextCfg]_vars

\* ----------------------------------------------------------------- backoff
\* The wait before retry number retryCount (already incremented, so >= 1).
\* Delays are counted in hundredths of a millisecond and Math.random() takes
\* the values r / 10, which keeps the 0.3 jitter factor exact in integers.
MaxBackoffAttempts == 4
RetryDelays == {100, 500, 1000, 2000, 20000, 40000}
Randoms == {0, 5, 9}

RECURSIVE pow2(_)
pow2(n) == IF n = 0 THEN 1 ELSE 2 * pow2(n - 1)
min(a, b) == IF a <= b THEN a ELSE b

\* Client.calculateRetryDelay:
\*   exponentialDelay = baseDelay * Math.pow(2, retryCount - 1)
\*   jitter = Math.random() * 0.3 * exponentialDelay
\*   return Math.min(exponentialDelay + jitter, 30000)
calculateRetryDelay(baseDelay, retryCount, r) ==
    LET exponentialDelay == baseDelay * pow2(retryCount - 1)
        jitter == 3 * r * exponentialDelay
    IN min(100 * exponentialDelay + jitter, 100 * 30000)

\* PHP Client::requestWithRetry: usleep(getRetryDelay() * 1000 * $retryCount),
\* microseconds, i.e. retryDelay * retryCount milliseconds
phpRetryDelay(baseDelay, retryCount) == 100 * baseDelay * retryCount

\* the retry loop computes its wait after a retryable ApiException
Backoff ==
    /\ probe.op = "none"
    /\ \E r \in Randoms :
         /\ impl = "php" => r = 0
         /\ probe' = [probe EXCEPT !.op = "backoff",
                         !.delay = IF impl = "node"
                                   THEN calculateRetryDelay(probe.retryDelay,
                                                            probe.retryCount, r)
                                   ELSE phpRetryDelay(probe.retryDelay,
                                                      probe.retryCount)]
    /\ UNCHANGED <<impl, maxRetries, autoReauth, isRefreshingToken, accessToken,
                   tokenExpiry, cache, now, tokenSeq, task, authCalls, sequential,
                   lifetimes, auth>>

InitBackoff ==
    /\ impl \in {"node", "php"}
    /\ maxRetries = 0
    /\ autoReauth = FALSE
    /\ sequential = TRUE
    /\ lifetimes = {0}
    /\ \E b \in RetryDelays, a \in 1..MaxBackoffAttempts :
          probe = [op |-> "none", retryDelay |-> b, retryCount |-> a, delay |-> 0]
    /\ auth = NoAuth
    /\ InitState

SpecBackoff == InitBackoff /\ [][Backoff]_vars

\* ----------------------------------------------------- token response body
\* The JSON body of a 2xx token response with success: true.  Every object
\* level is [given, access_token, expires_in, data]; `given` is FALSE where
\* the member is missing, and the third level has no further data member.
Nothing == [given |-> FALSE]
NoObject == [given |-> FALSE, access_token |-> Absent, expires_in |-> NoNumber,
             data |-> Nothing]
BodyTokens == {Absent, "t", "u"}
BodyExpires == {NoNumber, [given |-> TRUE, value |-> 120],
                [given |-> TRUE, value |-> 7200]}
Objects(inner) ==
    [given : {TRUE}, access_token : BodyTokens, expires_in : BodyExpires,
     data : inner]
Bodies == Objects({NoObject} \cup Objects({NoObject} \cup Objects({Nothing})))

\* `o?.access_token` and `o?.expires_in` on a member that may be missing
memberToken(o) == IF o.given THEN o.access_token ELSE Absent
memberExpires(o) == IF o.given THEN o.expires_in ELSE NoNumber

\* Response.getData (Node): `this.body.data || this.body`
nodeGetData(body) == IF body.data.given THEN body.data ELSE body
\* Response::getData (PHP): `$this->body['data'] ?? null`
phpGetData(body) == body.data

\* `if (!this.accessToken)` / `if (!isset($data['access_token']))`
tokenMissing(token) == token = Absent

NoToken == [kind |-> "Authentication", token |-> Absent, expiresIn |-> 0]

\* Authentication.authenticate (Node), from response.getData() on
nodeTokenFrom(body) ==
    LET data == nodeGetData(body)
        token == jsOr(data.access_token, memberToken(data.data))
        expiresIn == jsOrNumber(data.expires_in,
                                jsOrNumber(memberExpires(data.data),
                                           DEFAULT_EXPIRES_IN))
    IN IF tokenMissing(token) THEN NoToken
       ELSE [kind |-> "ok", token |-> token, expiresIn |-> expiresIn]

\* Authentication::requestNewToken (PHP), from $response->getData() on
phpTokenFrom(body) ==
    LET data == phpGetData(body)
    IN IF tokenMissing(memberToken(data)) THEN NoToken
       ELSE [kind |-> "ok", token |-> data.access_token,
             expiresIn |-> phpCoalesceNumber(data.expires_in, DEFAULT_EXPIRES_IN)]

\* authenticate() / requestNewToken() receives the successful response
TokenResponse ==
    /\ probe.op = "none"
    /\ probe' = [probe EXCEPT !.op = "authenticate",
                    !.result = IF impl = "node" THEN nodeTokenFrom(probe.body)
                               ELSE phpTokenFrom(probe.body)]
    /\ UNCHANGED <<impl, maxRetries, autoReauth, isRefreshingToken, accessToken,
                   tokenExpiry, cache, now, tokenSeq, task, authCalls, sequential,
                   lifetimes, auth>>

InitBody ==
    /\ impl \in {"node", "php"}
    /\ maxRetries = 0
    /\ autoReauth = FALSE
    /\ sequential = TRUE
    /\ lifetimes = {0}
    /\ \E b \in Bodies : probe = [op |-> "none", body |-> b, result |-> NoToken]
    /\ auth = NoAuth
    /\ InitState

SpecBody == InitBody /\ [][TokenResponse]_vars

\* ---------------------------------------------------------------- Response
\* Response(statusCode, body).  JSON values are written as strings: "undefined"
\* for a missing member, "null", and the falsy values 0, false and "" beside
\* a truthy object; getData answers one of them or WholeBody.
JsUndefined == "undefined"
JsNull == "null"
WholeBody == "body"
JsFalsy == {JsUndefined, JsNull, "0", "false", "''"}
ResponseStatuses == {199, 200, 299, 300, 404}
SuccessValues == {JsUndefined, "true", "false", "1"}
DataValues == {JsUndefined, JsNull, "0", "false", "''", "object"}
ErrorCodes == {NoNumber, [given |-> TRUE, value |-> 0],
               [given |-> TRUE, value |-> 4001]}
ErrorMessages == {JsUndefined, "", "Invalid amount"}
Messages == {JsUndefined, "", "Failed"}
ResponseBodies ==
    [success : SuccessValues, data : DataValues, errorCode : ErrorCodes,
     errorMessage : ErrorMessages, message : Messages]

\* Response.isSuccess, both clients: 2xx and `(body.success ?? false) === true`
isSuccess(statusCode, body) ==
    statusCode >= 200 /\ statusCode < 300 /\ body.success = "true"

\* Response.getData (Node): `this.body.data || this.body`
getData(body) == IF body.data \in JsFalsy THEN WholeBody ELSE body.data
\* Response::getData (PHP): `$this->body['data'] ?? null`
phpResponseData(body) == IF body.data = JsUndefined THEN JsNull ELSE body.data

\* Response.getCode (Node): `this.body.error?.code || this.statusCode`
getCode(statusCode, body) == jsOrNumber(body.errorCode, statusCode)
\* Response::getCode (PHP): `$this->body['error']['code'] ?? $this->statusCode`
phpGetCode(statusCode, body) == phpCoalesceNumber(body.errorCode, statusCode)

\* Response.getMessage (Node): the first truthy of error.message, message
getMessage(body) ==
    IF body.errorMessage \notin {JsUndefined, ""} THEN body.errorMessage
    ELSE IF body.message \notin {JsUndefined, ""} THEN body.message
    ELSE JsNull
\* Response::getMessage (PHP): the first that isset
phpGetMessage(body) ==
    IF body.errorMessage # JsUndefined THEN body.errorMessage
    ELSE IF body.message # JsUndefined THEN body.message
    ELSE JsNull

\* the four getters are called on a response
ResponseGetters ==
    /\ probe.op = "none"
    /\ probe' = [probe EXCEPT !.op = "getters",
          !.result =
              IF impl = "node"
              THEN [isSuccess |-> isSuccess(probe.statusCode, probe.body),
                    data |-> getData(probe.body),
                    code |-> getCode(probe.statusCode, probe.body),
                    message |-> getMessage(probe.body)]
              ELSE [isSuccess |-> isSuccess(probe.statusCode, probe.body),
                    data |-> phpResponseData(probe.body),
                    code |-> phpGetCode(probe.statusCode, probe.body),
                    message |-> phpGetMessage(probe.body)]]
    /\ UNCHANGED <<impl, maxRetries, autoReauth, isRefreshingToken, accessToken,
                   tokenExpiry, cache, now, tokenSeq, task, authCalls, sequential,
                   lifetimes, auth>>

InitResponse ==
    /\ impl \in {"node", "php"}
    /\ maxRetries = 0
    /\ autoReauth = FALSE
    /\ sequential = TRUE
    /\ lifetimes = {0}
    /\ \E s \in ResponseStatuses, b \in ResponseBodies :
          probe = [op |-> "none", statusCode |-> s, body |-> b,
                   result |-> [isSuccess |-> FALSE, data |-> JsUndefined,
                               code |-> 0, message |-> JsUndefined]]
    /\ auth = NoAuth
    /\ InitState

SpecResponse == InitResponse /\ [][ResponseGetters]_vars

\* ------------------------------------------------------------ cache backends
\* One key of a cache backend, called directly.  Here `now` counts
\* milliseconds: Date.now() reads it as it is, PHP's time() reads whole
\* seconds.  An entry of `cache` keeps its expiry in the backend's own unit.
MaxCacheTicks == 6
ClockStep == 500
NodeBackends == {"MemoryCache", "RedisCache"}
PhpBackends == {"ArrayCache", "FileCache", "RedisCache"}
CacheValues == {[id |-> 1, exp |-> 0], [id |-> 2, exp |-> 0]}
CacheTtls == {0, 1, 2}
NoWrite == [valid |-> FALSE, value |-> Null, at |-> 0, ttl |-> 0]

\* Date.now() in MemoryCache, time() (whole seconds) in ArrayCache and
\* FileCache; the Redis server keeps time to the millisecond
clock(backend, t) ==
    IF backend \in {"MemoryCache", "RedisCache"} THEN t ELSE t \div 1000

\* set(key, value, ttl) with a ttl: MemoryCache stores Date.now() + ttl * 1000,
\* ArrayCache and FileCache time() + ttl, RedisCache hands ttl to SETEX
cacheSet(backend, v, ttl, t) ==
    [present |-> TRUE, value |-> v,
     expiresAt |-> IF backend \in {"MemoryCache", "RedisCache"}
                   THEN t + ttl * 1000
                   ELSE clock(backend, t) + ttl]

\* has(key): the in-process backends compare with `>`; a Redis key is gone
\* as soon as its time to live is used up
backendHas(backend, c, t) ==
    IF backend = "RedisCache" THEN c.present /\ clock(backend, t) < c.expiresAt
    ELSE cacheHas(c, clock(backend, t))

\* delete(key): the in-process backends answer true; RedisCache answers
\* `del(...) > 0`, the number of keys removed
deleteResult(backend, c, t) ==
    IF backend = "RedisCache" THEN backendHas(backend, c, t) ELSE TRUE

SetCall ==
    \E v \in CacheValues, ttl \in CacheTtls :
        /\ cache' = cacheSet(probe.backend, v, ttl, now)
        /\ probe' = [probe EXCEPT !.op = "set", !.ok = TRUE, !.ret = Null,
                        !.at = now, !.deleted = FALSE,
                        !.written = [valid |-> TRUE, value |-> v, at |-> now,
                                     ttl |-> ttl]]
        /\ UNCHANGED <<impl, maxRetries, autoReauth, isRefreshingToken,
                       accessToken, tokenExpiry, now, tokenSeq, task, authCalls,
                       sequential, lifetimes, auth>>

\* get(key): null unless has(key); has removes an entry it finds expired
GetCall ==
    /\ LET live == backendHas(probe.backend, cache, now)
       IN /\ cache' = IF live THEN cache ELSE cacheDelete(cache)
          /\ probe' = [probe EXCEPT !.op = "get", !.ok = live, !.at = now,
                          !.ret = IF live THEN cache.value ELSE Null]
    /\ UNCHANGED <<impl, maxRetries, autoReauth, isRefreshingToken,
                   accessToken, tokenExpiry, now, tokenSeq, task, authCalls,
                   sequential, lifetimes, auth>>

HasCall ==
    /\ LET live == backendHas(probe.backend, cache, now)
       IN /\ cache' = IF live THEN cache ELSE cacheDelete(cache)
          /\ probe' = [probe EXCEPT !.op = "has", !.ok = live, !.at = now,
                          !.ret = Null]
    /\ UNCHANGED <<impl, maxRetries, autoReauth, isRefreshingToken,
                   accessToken, tokenExpiry, now, tokenSeq, task, authCalls,
                   sequential, lifetimes, auth>>

DeleteCall ==
    /\ cache' = cacheDelete(cache)
    /\ probe' = [probe EXCEPT !.op = "delete", !.at = now, !.ret = Null,
                    !.ok = deleteResult(probe.backend, cache, now),
                    !.deleted = TRUE]
    /\ UNCHANGED <<impl, maxRetries, autoReauth, isRefreshingToken,
                   accessToken, tokenExpiry, now, tokenSeq, task, authCalls,
                   sequential, lifetimes, auth>>

\* half a second passes between two calls
ClockTick ==
    /\ now + ClockStep <= MaxCacheTicks * ClockStep
    /\ now' = now + ClockStep
    /\ UNCHANGED <<impl, maxRetries, autoReauth, isRefreshingToken,
                   accessToken, tokenExpiry, cache, tokenSeq, task, authCalls,
                   sequential, lifetimes, probe, auth>>

InitCache ==
    /\ impl \in {"node", "php"}
    /\ maxRetries = 0
    /\ autoReauth = FALSE
    /\ sequential = TRUE
    /\ lifetimes = {0}
    /\ \E b \in IF impl = "node" THEN NodeBackends ELSE PhpBackends :
          probe = [backend |-> b, op |-> "none", ok |-> FALSE, ret |-> Null,
                   at |-> 0, deleted |-> FALSE, written |-> NoWrite]
    /\ auth = NoAuth
    /\ InitState

NextCache == SetCall \/ GetCall \/ HasCall \/ DeleteCall \/ ClockTick

SpecCache == InitCache /\ [][NextCache]_vars

\* ------------------------------------------------------ interceptor hooks
\* One call of requestWithRetry whose interceptors may throw.  `probe.pc`
\* is the position inside Client.request: "start" before the request hooks,
\* "send" before the transport call, "responded" and "failed" after it,
\* "caught" in the catch block of requestWithRetry, "done" after the call.
MaxHookRetries == 2
TransportStatuses == {200, 0, 401, 404, 503}
\* what a hook may throw: a plain Error, or an exception of the SDK
HookErrors == {Exc("Error", 0, "hook", 1), Exc("Api", 503, "hook", 1),
               Exc("Authentication", 401, "hook", 1)}
NoCall == [pc |-> "start", retryCount |-> 0, sent |-> 0, sentNow |-> FALSE,
           status |-> 0, origin |-> "none", hook |-> "none", threw |-> FALSE,
           exc |-> NoExc, result |-> "none", retried |-> "none"]

\* the exception Client.request throws from its catch block.  An error
\* thrown by a response hook inside the try block has no `response` (Node)
\* and is no RequestException (PHP): both give ApiException with code 0
caughtError(origin, status) ==
    IF origin = "hook" THEN Exc("Api", 0, "hook", 1)
    ELSE IF impl = "node" THEN requestError(status, "api", 1)
    ELSE phpRequestError(status, "api", 1)

\* mutation: an exception with a retryable code is retried whatever it is
catchDecisionAnyError(e, retryCount) ==
    IF e.kind = "Authentication"
    THEN IF autoReauth /\ retryCount < maxRetries THEN "reauth" ELSE "throw"
    ELSE IF retryCount < maxRetries THEN "retry" ELSE "throw"

\* the catch block(s) of requestWithRetry: refresh and retry, back off and
\* retry, or leave the loop and throw
catchDecision(e, retryCount) ==
    IF e.kind = "Authentication"
    THEN IF autoReauth /\ retryCount < maxRetries THEN "reauth" ELSE "throw"
    ELSE IF impl = "node"
    THEN IF shouldRetry(e, retryCount, maxRetries) THEN "retry" ELSE "throw"
    ELSE IF e.kind \in {"Api", "Validation"} /\
            phpShouldRetry(e, retryCount, maxRetries)
    THEN "retry" ELSE "throw"

HookUnchanged ==
    UNCHANGED <<impl, maxRetries, autoReauth, isRefreshingToken, accessToken,
                tokenExpiry, cache, now, tokenSeq, task, authCalls, sequential,
                lifetimes, auth>>

\* the before-request hooks run, outside the try block of Client.request
RequestHooks ==
    /\ probe.pc = "start"
    /\ \E o \in {NoExc} \cup HookErrors :
         probe' = IF o = NoExc THEN [probe EXCEPT !.pc = "send"]
                  ELSE [probe EXCEPT !.pc = "caught", !.exc = o,
                                     !.hook = "request", !.threw = TRUE]
    /\ HookUnchanged

\* httpClient.request answers 2xx, fails with a status, or fails without a
\* response (status 0)
Transport ==
    /\ probe.pc = "send"
    /\ \E s \in TransportStatuses :
         probe' = [probe EXCEPT !.pc = IF s = 200 THEN "responded" ELSE "failed",
                                !.status = s, !.origin = "transport",
                                !.sent = @ + 1, !.sentNow = TRUE]
    /\ HookUnchanged

\* the response hooks run inside the try block; the Response is returned
\* when none of them throws
ResponseHooks ==
    /\ probe.pc = "responded"
    /\ \E o \in {NoExc} \cup HookErrors :
         probe' = IF o = NoExc
                  THEN [probe EXCEPT !.pc = "done", !.result = "response"]
                  ELSE [probe EXCEPT !.pc = "failed", !.origin = "hook",
                                     !.hook = "response", !.threw = TRUE]
    /\ HookUnchanged

\* the error hooks run inside the catch block, before the exception of the
\* failed exchange is built; what one of them throws leaves request() as is
ErrorHooks ==
    /\ probe.pc = "failed"
    /\ \E o \in {NoExc} \cup HookErrors :
         probe' = IF o = NoExc
                  THEN [probe EXCEPT !.pc = "caught",
                                     !.exc = caughtError(probe.origin, probe.status)]
                  ELSE [probe EXCEPT !.pc = "caught", !.exc = o,
                                     !.hook = "error", !.threw = TRUE]
    /\ HookUnchanged

\* requestWithRetry catches what request() threw
Catch ==
    /\ probe.pc = "caught"
    /\ LET d == catchDecision(probe.exc, probe.retryCount)
           again == [probe EXCEPT !.pc = "start", !.retryCount = @ + 1,
                                  !.retried = probe.hook, !.hook = "none",
                                  !.sentNow = FALSE, !.origin = "none",
                                  !.status = 0, !.exc = NoExc]
           fail(e) == [probe EXCEPT !.pc = "done", !.result = "thrown",
                                    !.exc = e]
       IN \/ d = "throw" /\ probe' = fail(probe.exc)
          \/ d = "retry" /\ probe' = again
          \/ d = "reauth" /\ probe' = again
          \/ /\ d = "reauth"
             \* auth.refreshToken() fails: Node breaks and throws the 401,
             \* PHP lets the refresh's exception through
             /\ probe' = IF impl = "node" THEN fail(probe.exc)
                         ELSE fail(Exc("Authentication", 0, "token", 1))
    /\ HookUnchanged

InitHook ==
    /\ impl \in {"node", "php"}
    /\ maxRetries \in 0..MaxHookRetries
    /\ autoReauth \in BOOLEAN
    /\ sequential = TRUE
    /\ lifetimes = {0}
    /\ probe = NoCall
    /\ auth = NoAuth
    /\ InitState

NextHook == RequestHooks \/ Transport \/ ResponseHooks \/ ErrorHooks \/ Catch

SpecHook == InitHook /\ [][NextHook]_vars

\* ------------------------------------------------------- webhook signature
\* Hashes are written as terms over their input, so that equal digests mean
\* equal inputs.
sha256(s) == "sha256(" \o s \o ")"
hmacSha256(payload, key) == "hmac256(" \o key \o "," \o payload \o ")"
WebhookKeys == {Absent, "", "k1", "k2"}
WebhookTimestamps == {"", "0", "1700"}
WebhookBodies == {"{}", "{a}"}

\* Signature::verifyWebhook (PHP), after its test for empty arguments:
\* hash_hmac('sha256', $timestamp . hash('sha256', $bodyJson), $hmacKey)
expectedSignature(timestamp, body, hmacKey) ==
    hmacSha256(timestamp \o sha256(body), hmacKey)

WebhookSignatures ==
    {""} \cup {expectedSignature(t, b, k) :
                  t \in WebhookTimestamps \ {""}, b \in WebhookBodies,
                  k \in WebhookKeys \ {Absent, ""}}

\* PHP empty(): null, "" and "0" are empty
phpEmpty(s) == s \in {Absent, "", "0"}

\* SingaPay.verifyWebhookSignature (Node).  Signature.js defines
\* generateDisbursementSignature and generateAuthSignature only, so the call
\* Signature.verifyWebhook(...) is a TypeError
nodeVerifyWebhookSignature(timestamp, body, receivedSignature, hmacKey) ==
    IF hmacKey \in {Absent, ""} THEN [kind |-> "Error", value |-> FALSE]
    ELSE [kind |-> "TypeError", value |-> FALSE]

\* SingaPay::verifyWebhookSignature and Signature::verifyWebhook (PHP)
phpVerifyWebhookSignature(timestamp, body, receivedSignature, hmacKey) ==
    IF phpEmpty(hmacKey) THEN [kind |-> "InvalidArgument", value |-> FALSE]
    ELSE IF phpEmpty(timestamp) \/ phpEmpty(receivedSignature)
    THEN [kind |-> "InvalidArgument", value |-> FALSE]
    ELSE [kind |-> "returned",
          value |-> expectedSignature(timestamp, body, hmacKey) = receivedSignature]

VerifyWebhookSignature ==
    /\ probe.op = "none"
    /\ probe' = [probe EXCEPT !.op = "verify",
          !.result = IF impl = "node"
                     THEN nodeVerifyWebhookSignature(probe.timestamp, probe.body,
                                                     probe.signature, probe.key)
                     ELSE phpVerifyWebhookSignature(probe.timestamp, probe.body,
                                                    probe.signature, probe.key)]
    /\ UNCHANGED <<impl, maxRetries, autoReauth, isRefreshingToken, accessToken,
                   tokenExpiry, cache, now, tokenSeq, task, authCalls, sequential,
                   lifetimes, auth>>

InitWebhook ==
    /\ impl \in {"node", "php"}
    /\ maxRetries = 0
    /\ autoReauth = FALSE
    /\ sequential = TRUE
    /\ lifetimes = {0}
    /\ \E k \in WebhookKeys, t \in WebhookTimestamps, b \in WebhookBodies,
          s \in WebhookSignatures :
          probe = [op |-> "none", key |-> k, timestamp |-> t, body |-> b,
                   signature |-> s,
                   result |-> [kind |-> "none", value |-> FALSE]]
    /\ auth = NoAuth
    /\ InitState

SpecWebhook == InitWebhook /\ [][VerifyWebhookSignature]_vars

\* ------------------------------------------------------- Config setters
\* A Config that passed validate(), changed through its setters between
\* calls of requestWithRetry.  `probe.pc` is "idle" between calls and "loop"
\* inside the while loop; `probe.attempts` counts the calls of request().
SetterValues == {-1, 0, 1, 2}
CallOutcomes == {200, 404, 503}

\* the configurations the setters start from
BuiltConfigs ==
    {IF impl = "node" THEN nodeConfig(c) ELSE phpConfig(c) :
        c \in [clientId : {"v"}, clientSecret : {"v"}, apiKey : {"v"},
               environment : {Absent, "production"},
               timeout : {NoNumber}, maxRetries : ConfigRetries,
               retryDelay : {NoNumber}, autoReauth : {Absent}]}

SetterUnchanged ==
    UNCHANGED <<impl, maxRetries, autoReauth, isRefreshingToken, accessToken,
                tokenExpiry, cache, now, tokenSeq, task, authCalls, sequential,
                lifetimes, auth>>

\* setMaxRetries: `this.maxRetries = maxRetries; return this`
SetMaxRetries ==
    /\ probe.pc = "idle"
    /\ \E n \in SetterValues : probe' = [probe EXCEPT !.config.maxRetries = n]
    /\ SetterUnchanged

SetRetryDelay ==
    /\ probe.pc = "idle"
    /\ \E n \in SetterValues : probe' = [probe EXCEPT !.config.retryDelay = n]
    /\ SetterUnchanged

SetTimeout ==
    /\ probe.pc = "idle"
    /\ \E n \in SetterValues : probe' = [probe EXCEPT !.config.timeout = n]
    /\ SetterUnchanged

\* requestWithRetry is entered: retryCount = 0, maxRetries read once
EnterLoop ==
    /\ probe.pc = "idle"
    /\ probe' = [probe EXCEPT !.pc = "loop", !.retryCount = 0, !.attempts = 0,
                              !.maxR = probe.config.maxRetries,
                              !.result = "none"]
    /\ SetterUnchanged

\* one pass of `while (retryCount <= maxRetries)`: request() answers or
\* fails, and a retryable failure with retries left goes round again
LoopAttempt ==
    /\ probe.pc = "loop"
    /\ probe.retryCount <= probe.maxR
    /\ \E s \in CallOutcomes :
         LET e == Exc("Api", s, "api", 1)
             again == IF impl = "node"
                      THEN shouldRetry(e, probe.retryCount, probe.maxR)
                      ELSE phpShouldRetry(e, probe.retryCount, probe.maxR)
         IN probe' =
              IF s = 200
              THEN [probe EXCEPT !.pc = "idle", !.attempts = @ + 1,
                                 !.result = "response"]
              ELSE IF again
              THEN [probe EXCEPT !.attempts = @ + 1, !.retryCount = @ + 1]
              ELSE [probe EXCEPT !.pc = "idle", !.attempts = @ + 1,
                                 !.result = "thrown"]
    /\ SetterUnchanged

\* the loop condition is false: `throw lastException || new ApiException(...)`
LoopExit ==
    /\ probe.pc = "loop"
    /\ ~(probe.retryCount <= probe.maxR)
    /\ probe' = [probe EXCEPT !.pc = "idle", !.result = "thrown"]
    /\ SetterUnchanged

InitSetters ==
    /\ impl \in {"node", "php"}
    /\ maxRetries = 0
    /\ autoReauth = FALSE
    /\ sequential = TRUE
    /\ lifetimes = {0}
    /\ \E c \in BuiltConfigs :
          /\ validate(c) = "ok"
          /\ probe = [pc |-> "idle", config |-> c, retryCount |-> 0,
                      attempts |-> 0, maxR |-> 0, result |-> "none"]
    /\ auth = NoAuth
    /\ InitState

NextSetters ==
    SetMaxRetries \/ SetRetryDelay \/ SetTimeout \/ EnterLoop \/ LoopAttempt
        \/ LoopExit

SpecSetters == InitSetters /\ [][NextSetters]_vars

\* -------------------------------------------------- disbursement signature
\* The string that generateDisbursementSignature signs.
SignMethods == {"post", "POST", "get"}
SignEndpoints == {"/a", "/b"}
SignTokens == {"t1", "t2"}
SignBodies == {JsNull, "{}", "{x}"}
SignTimestamps == {"1", "2"}

\* strtoupper on the methods explored
strtoupper(m) == IF m \in {"post", "POST"} THEN "POST" ELSE "GET"

stringToSign(method, endpoint, token, hashedBody, timestamp) ==
    method \o ":" \o endpoint \o ":" \o token \o ":" \o hashedBody
        \o ":" \o timestamp

\* Signature.generateDisbursementSignature (Node): the method is used as
\* given; a falsy body is hashed as ""
nodeStringToSign(method, endpoint, token, body, timestamp) ==
    [kind |-> "ok",
     signed |-> stringToSign(method, endpoint, token,
                             sha256(IF body = JsNull THEN "" ELSE body),
                             timestamp)]

\* Signature::generateDisbursementSignature (PHP): a body that is no array
\* is rejected; the method is upper-cased
phpStringToSign(method, endpoint, token, body, timestamp) ==
    IF body = JsNull THEN [kind |-> "InvalidArgument", signed |-> ""]
    ELSE [kind |-> "ok",
          signed |-> stringToSign(strtoupper(method), endpoint, token,
                                  sha256(body), timestamp)]

GenerateDisbursementSignature ==
    /\ probe.op = "none"
    /\ probe' = [probe EXCEPT !.op = "sign",
          !.result = IF impl = "node"
                     THEN nodeStringToSign(probe.method, probe.endpoint,
                              probe.accessToken, probe.body, probe.timestamp)
                     ELSE phpStringToSign(probe.method, probe.endpoint,
                              probe.accessToken, probe.body, probe.timestamp)]
    /\ UNCHANGED <<impl, maxRetries, autoReauth, isRefreshingToken, accessToken,
                   tokenExpiry, cache, now, tokenSeq, task, authCalls, sequential,
                   lifetimes, auth>>

InitSign ==
    /\ impl \in {"node", "php"}
    /\ maxRetries = 0
    /\ autoReauth = FALSE
    /\ sequential = TRUE
    /\ lifetimes = {0}
    /\ \E m \in SignMethods, e \in SignEndpoints, t \in SignTokens,
          b \in SignBodies, ts \in SignTimestamps :
          probe = [op |-> "none", method |-> m, endpoint |-> e,
                   accessToken |-> t, body |-> b, timestamp |-> ts,
                   result |-> [kind |-> "none", signed |-> ""]]
    /\ auth = NoAuth
    /\ InitState

SpecSign == InitSign /\ [][GenerateDisbursementSignature]_vars

\* ------------------------------------------------------------------ factory
\* SingaPayFactory: a static map from names to instances.  An instance is
\* the number of the `new SingaPay(config)` that built it; 0 is no instance.
MaxInstances == 3
FactoryNames == {"default", "b"}
FactoryConfigs == {"c1", "c2", "invalid"}
NoFactoryCall == [op |-> "none", name |-> "default", config |-> "c1",
                  wasRegistered |-> FALSE, prev |-> 0, madeBefore |-> 0,
                  ret |-> 0, found |-> FALSE, threw |-> FALSE]

\* mutation: create does not look the name up
registeredNever(instances, name) == FALSE
\* `this.instances.has(name)` / `isset(self::$instances[$name])`
registered(instances, name) == instances[name] # 0

FactoryUnchanged ==
    UNCHANGED <<impl, maxRetries, autoReauth, isRefreshingToken, accessToken,
                tokenExpiry, cache, now, tokenSeq, task, authCalls, sequential,
                lifetimes, auth>>

\* what every call records about the state it found
Found(op, name, config) ==
    [NoFactoryCall EXCEPT !.op = op, !.name = name, !.config = config,
                          !.wasRegistered = probe.instances[name] # 0,
                          !.prev = probe.instances[name],
                          !.madeBefore = probe.made]

\* create(config, name): the registered instance, or a new one; the
\* constructor throws for a configuration that validate() rejects
FactoryCreate ==
    \E name \in FactoryNames, config \in FactoryConfigs :
        /\ probe.made < MaxInstances
        /\ LET f == Found("create", name, config)
           IN probe' =
                IF registered(probe.instances, name)
                THEN [probe EXCEPT !.last = [f EXCEPT !.ret = probe.instances[name]]]
                ELSE IF config = "invalid"
                THEN [probe EXCEPT !.last = [f EXCEPT !.threw = TRUE]]
                ELSE [probe EXCEPT !.made = @ + 1,
                                   !.instances[name] = probe.made + 1,
                                   !.configs[probe.made + 1] = config,
                                   !.last = [f EXCEPT !.ret = probe.made + 1]]
        /\ FactoryUnchanged

FactoryGet ==
    \E name \in FactoryNames :
        /\ LET f == Found("get", name, "c1")
           IN probe' =
                IF ~registered(probe.instances, name)
                THEN [probe EXCEPT !.last = [f EXCEPT !.threw = TRUE]]
                ELSE [probe EXCEPT !.last = [f EXCEPT !.ret = probe.instances[name]]]
        /\ FactoryUnchanged

FactoryHas ==
    \E name \in FactoryNames :
        /\ probe' = [probe EXCEPT !.last =
                        [Found("has", name, "c1") EXCEPT
                            !.found = registered(probe.instances, name)]]
        /\ FactoryUnchanged

FactoryRemove ==
    \E name \in FactoryNames :
        /\ probe' = [probe EXCEPT !.instances[name] = 0,
                                  !.last = Found("remove", name, "c1")]
        /\ FactoryUnchanged

InitFactory ==
    /\ impl \in {"node", "php"}
    /\ maxRetries = 0
    /\ autoReauth = FALSE
    /\ sequential = TRUE
    /\ lifetimes = {0}
    /\ probe = [instances |-> [n \in FactoryNames |-> 0], made |-> 0,
                configs |-> [i \in 1..(MaxInstances + 1) |-> "none"],
                last |-> NoFactoryCall]
    /\ auth = NoAuth
    /\ InitState

NextFactory == FactoryCreate \/ FactoryGet \/ FactoryHas \/ FactoryRemove

SpecFactory == InitFactory /\ [][NextFactory]_vars

\* ----------------------------------------------------------------- progress
\* The steps of the call chain of caller p in the Node client.  Every one of
\* them is the resumption of an awaited promise: a cache operation, a sleep,
\* or an HTTP exchange, which ends with a response or, once the timeout has
\* passed, with a transport failure.
NodeStep(p) ==
    \/ NodeStart(p)
    \/ NodeCacheGet(p)
    \/ \E s \in ApiStatuses \cup TokenStatuses :
          \E b \in TokenBodies : \E x \in ExpiresInChoices : NodeRecv(p, s, b, x)
    \/ NodeCacheDelete(p)
    \/ NodeCacheSet(p)
    \/ NodeWake(p)

InitLive ==
    /\ impl = "node"
    /\ maxRetries \in 0..MaxRetriesBound
    /\ autoReauth \in BOOLEAN
    /\ sequential = TRUE
    /\ lifetimes = {0}
    /\ probe = NoProbe
    /\ auth = NoAuth
    /\ InitState

\* successive Node calls, every pending resumption eventually run
SpecLive == InitLive /\ [][NodeNext]_vars /\ \A p \in Procs : WF_vars(NodeStep(p))

\* ------------------------------------------------- Authentication, interleaved
\* Calls of getAccessToken(), authenticate() and refreshToken() on one Node
\* Authentication whose cache is a RedisCache, interleaved at their awaits.
\* A cache command is sent when the method is called, and the commands of
\* one connection are executed in the order sent: its effect on the store,
\* and for a read its result, are fixed at the call, and the caller goes on
\* when the reply arrives.  Tokens are numbered in the order issued; 0 is
\* no token and -1 JavaScript's undefined.
MaxRaceCalls == 3
Callers == {1, 2}
RaceOps == {"getAccessToken", "authenticate", "refreshToken"}
IdleCaller == [pc |-> "idle", op |-> "none", got |-> 0, ret |-> 0, threw |-> FALSE]

RaceUnchanged ==
    UNCHANGED <<impl, maxRetries, autoReauth, isRefreshingToken, accessToken,
                tokenExpiry, cache, now, tokenSeq, task, authCalls, sequential,
                lifetimes, auth>>

\* a call is made and runs to its first await
RaceCall(c, op) ==
    /\ probe.who[c].pc \in {"idle", "done"}
    /\ probe.calls < MaxRaceCalls
    /\ LET started == [IdleCaller EXCEPT !.op = op]
           p == [probe EXCEPT !.calls = @ + 1]
       IN probe' =
            CASE op = "getAccessToken" ->
                   IF probe.mem > 0
                   THEN [p EXCEPT !.who[c] = [started EXCEPT !.pc = "done",
                                                             !.ret = probe.mem]]
                   ELSE \* await this.cache.get("access_token")
                        [p EXCEPT !.who[c] = [started EXCEPT !.pc = "get",
                                                             !.got = probe.store]]
              [] op = "authenticate" ->
                   \* await this.client.post(...)
                   [p EXCEPT !.who[c] = [started EXCEPT !.pc = "post"]]
              [] op = "refreshToken" ->
                   \* this.accessToken = null; await this.cache.delete(...)
                   [p EXCEPT !.mem = 0, !.store = 0,
                             !.who[c] = [started EXCEPT !.pc = "del"]]
    /\ RaceUnchanged

\* the reply of cache.get arrives: a cached token is put in memory and
\* returned, otherwise authenticate() posts a token request
RaceGot(c) ==
    /\ probe.who[c].pc = "get"
    /\ probe' = IF probe.who[c].got > 0
                THEN [probe EXCEPT !.mem = probe.who[c].got,
                                   !.who[c].pc = "done",
                                   !.who[c].ret = probe.who[c].got]
                ELSE [probe EXCEPT !.who[c].pc = "post"]
    /\ RaceUnchanged

\* the reply of cache.delete arrives: refreshToken() calls authenticate()
RaceDeleted(c) ==
    /\ probe.who[c].pc = "del"
    /\ probe' = [probe EXCEPT !.who[c].pc = "post"]
    /\ RaceUnchanged

\* the token response arrives: the token is put in memory and cache.set is
\* awaited, or authenticate() throws
RacePosted(c, outcome) ==
    /\ probe.who[c].pc = "post"
    /\ probe' =
         CASE outcome = "ok" ->
                [probe EXCEPT !.issued = @ + 1, !.mem = probe.issued + 1,
                              !.store = probe.issued + 1,
                              !.latest = probe.issued + 1,
                              !.who[c].pc = "set"]
           [] outcome = "noToken" ->
                [probe EXCEPT !.mem = -1, !.who[c].pc = "done",
                              !.who[c].threw = TRUE]
           [] OTHER ->
                [probe EXCEPT !.who[c].pc = "done", !.who[c].threw = TRUE]
    /\ RaceUnchanged

\* the reply of cache.set arrives: `return this.accessToken`
RaceStored(c) ==
    /\ probe.who[c].pc = "set"
    /\ probe' = [probe EXCEPT !.who[c].pc = "done", !.who[c].ret = probe.mem]
    /\ RaceUnchanged

\* a new Authentication; its cache backend is empty or holds the token an
\* earlier process stored
InitRace ==
    /\ impl = "node"
    /\ maxRetries = 0
    /\ autoReauth = FALSE
    /\ sequential = FALSE
    /\ lifetimes = {0}
    /\ \E t \in {0, 1} :
          probe = [mem |-> 0, store |-> t, issued |-> t, latest |-> t, calls |-> 0,
                   who |-> [c \in Callers |-> IdleCaller]]
    /\ auth = NoAuth
    /\ InitState

NextRace ==
    \/ \E c \in Callers, op \in RaceOps : RaceCall(c, op)
    \/ \E c \in Callers : RaceGot(c)
    \/ \E c \in Callers : RaceDeleted(c)
    \/ \E c \in Callers, o \in {"ok", "noToken", "fail"} : RacePosted(c, o)
    \/ \E c \in Callers : RaceStored(c)

SpecRace == InitRace /\ [][NextRace]_vars

\* -------------------------------------------------- interceptor notifications
\* Client.request with its registered interceptors, hook by hook.  One of
\* the interceptors is the MetricsInterceptor, whose hooks only count; a hook
\* of any other interceptor may throw.
MaxAttempts == 2
Interceptors == 1..3
NoNotice == [response |-> 0, error |-> 0]
NoMetrics == [totalRequests |-> 0, successfulRequests |-> 0, failedRequests |-> 0]

NotifyUnchanged ==
    UNCHANGED <<impl, maxRetries, autoReauth, isRefreshingToken, accessToken,
                tokenExpiry, cache, now, tokenSeq, task, authCalls, sequential,
                lifetimes, auth>>

\* the hook of the last interceptor has run
LastHook == probe.i = Cardinality(Interceptors)

\* Client.request is entered
StartAttempt ==
    /\ probe.pc = "idle"
    /\ probe.attempts < MaxAttempts
    /\ probe' = [probe EXCEPT !.pc = "request", !.i = 1, !.attempts = @ + 1,
                              !.requested = FALSE, !.threw = "none",
                              !.notified = [k \in Interceptors |-> NoNotice]]
    /\ NotifyUnchanged

\* the request hook of interceptor i, called before the try block: what it
\* throws leaves request()
RequestHook ==
    /\ probe.pc = "request"
    /\ \E throws \in BOOLEAN :
         /\ throws => probe.i # probe.metricsAt
         /\ probe' =
              IF throws
              THEN [probe EXCEPT !.pc = "idle", !.threw = "request"]
              ELSE [probe EXCEPT
                      !.metrics.totalRequests =
                          IF probe.i = probe.metricsAt THEN @ + 1 ELSE @,
                      !.i = IF LastHook THEN 1 ELSE @ + 1,
                      !.pc = IF LastHook THEN "send" ELSE @,
                      !.requested = LastHook]
    /\ NotifyUnchanged

\* httpClient.request: a 2xx response, or a failure with or without response
TransportCall ==
    /\ probe.pc = "send"
    /\ \E s \in {200, 503, 0} :
         probe' = [probe EXCEPT !.pc = IF s = 200 THEN "response" ELSE "error",
                                !.i = 1]
    /\ NotifyUnchanged

\* the response hook of interceptor i, inside the try block: what it throws
\* is caught by the catch block of request(), which runs the error hooks
ResponseHook ==
    /\ probe.pc = "response"
    /\ \E throws \in BOOLEAN :
         /\ throws => probe.i # probe.metricsAt
         /\ LET p == [probe EXCEPT
                        !.notified[probe.i].response = @ + 1,
                        !.metrics.successfulRequests =
                            IF probe.i = probe.metricsAt THEN @ + 1 ELSE @]
            IN probe' =
                 IF throws
                 THEN [p EXCEPT !.pc = "error", !.i = 1, !.threw = "response"]
                 ELSE [p EXCEPT !.i = IF LastHook THEN 1 ELSE @ + 1,
                                !.pc = IF LastHook THEN "idle" ELSE @]
    /\ NotifyUnchanged

\* the error hook of interceptor i, inside the catch block: what it throws
\* leaves request()
ErrorHook ==
    /\ probe.pc = "error"
    /\ \E throws \in BOOLEAN :
         /\ throws => probe.i # probe.metricsAt
         /\ LET p == [probe EXCEPT
                        !.notified[probe.i].error = @ + 1,
                        !.metrics.failedRequests =
                            IF probe.i = probe.metricsAt THEN @ + 1 ELSE @]
            IN probe' =
                 IF throws
                 THEN [p EXCEPT !.pc = "idle", !.threw = "error"]
                 ELSE [p EXCEPT !.i = IF LastHook THEN 1 ELSE @ + 1,
                                !.pc = IF LastHook THEN "idle" ELSE @]
    /\ NotifyUnchanged

InitNotify ==
    /\ impl \in {"node", "php"}
    /\ maxRetries = 0
    /\ autoReauth = FALSE
    /\ sequential = TRUE
    /\ lifetimes = {0}
    /\ \E m \in Interceptors :
          probe = [pc |-> "idle", i |-> 1, attempts |-> 0, metricsAt |-> m,
                   requested |-> FALSE, threw |-> "none",
                   notified |-> [k \in Interceptors |-> NoNotice],
                   metrics |-> NoMetrics]
    /\ auth = NoAuth
    /\ InitState

NextNotify ==
    StartAttempt \/ RequestHook \/ TransportCall \/ ResponseHook \/ ErrorHook

SpecNotify == InitNotify /\ [][NextNotify]_vars

\* ------------------------------------------------------------- properties
Done(p) == task[p].pc = "done"
\* task p called requestWithRetry on a protected endpoint and the call ended
ApiCall(p) == Done(p) /\ task[p].call.ep = "api"
\* task p awaits auth.refreshToken() in its retry loop
RefreshInFlight(p) == task[p].pc = "rf_del" \/ Refreshing(p)
\* refreshToken() calls made so far by the call of task p
RefreshesOf(p) ==
    IF Done(p) THEN task[p].call.refreshes
    ELSE IF task[p].stack # <<>> THEN task[p].stack[1].refreshes ELSE 0

C2_ReauthOnce ==
    \A p \in Procs :
        (/\ ApiCall(p)
         /\ autoReauth /\ maxRetries >= 1
         /\ task[p].call.seen = {401, 200} /\ task[p].call.attempts = 2) =>
            /\ task[p].result.kind = "Response"
            /\ task[p].call.refreshes = 1

C2_Witness ==
    \E p \in Procs :
        /\ ApiCall(p)
        /\ autoReauth /\ maxRetries >= 1
        /\ task[p].call.seen = {401, 200} /\ task[p].call.attempts = 2
        /\ task[p].result.kind = "Response"
        /\ task[p].call.refreshes = 1
        /\ IsToken(accessToken) /\ accessToken # task[p].hdr

\* C7: whatever the outcomes, one requestWithRetry call invokes
\* Client.request at most maxRetries+1 times: re-authentication retries and
\* backoff retries share retryCount, which never exceeds maxRetries.
FrameBound(f) ==
    /\ f.attempts <= maxRetries + 1
    /\ f.retryCount <= maxRetries
    /\ f.retryCount >= 0

C7_AttemptBound ==
    \A p \in Procs :
        /\ \A i \in 1..Len(task[p].stack) : FrameBound(task[p].stack[i])
        /\ FrameBound(task[p].call)

C7_Witness ==
    \E p \in Procs :
        /\ ApiCall(p)
        /\ maxRetries >= 2
        /\ task[p].call.attempts = maxRetries + 1
        /\ {401, 503} \subseteq task[p].call.seen
        /\ task[p].result.kind \in {"Api", "Authentication"}


\* C3: callers that invoke getAccessToken() concurrently while no token is in
\* memory or in the cache cause one authenticate() call, not one each.
AwaitingFirstToken(p) ==
    /\ task[p].pc = "recv"
    /\ Len(task[p].stack) = 1
    /\ task[p].stack[1].cont = "ga_auth"

C3_SingleFlight ==
    \A p, q \in Procs :
        (p # q /\ tokenSeq = 0 /\ AwaitingFirstToken(p) /\ AwaitingFirstToken(q))
            => authCalls = 1

\* C4: a request that got a 401 while another request's refresh is under way
\* sends its request again only after that refresh has completed.
C4_WaitsForRefresh ==
    [][\A p \in Procs :
          (task[p].pc = "auth_sleep" /\ task'[p].pc = "recv")
              => ~(\E q \in Procs \ {p} : RefreshInFlight(q))]_vars

C6_NeverInMargin ==
    [][\A p \in Procs :
          (task'[p].hdr # task[p].hdr /\ IsToken(task'[p].hdr))
              => now' < task'[p].hdr.exp - EXPIRY_MARGIN]_vars

C9_ShouldRetrySixCodes ==
    probe.op = "shouldRetry" =>
        probe.retry = (/\ probe.retryCount < probe.maxR
                       /\ probe.status \in {408, 429, 500, 502, 503, 504})

\* C9 (as amended): shouldRetry is false when attempt >= maxRetries; otherwise
\* it is true exactly for 408, 429, 500, 502, 503, 504 in the Node client and
\* exactly for 429 and every 5xx code in the PHP client.
C9_ShouldRetry ==
    probe.op = "shouldRetry" =>
        /\ probe.retryCount >= probe.maxR => ~probe.retry
        /\ probe.retryCount < probe.maxR =>
              probe.retry =
                 IF impl = "node"
                 THEN probe.status \in {408, 429, 500, 502, 503, 504}
                 ELSE \/ (probe.status >= 500 /\ probe.status < 600)
                      \/ probe.status = 429

C9_Witness ==
    /\ probe.op = "shouldRetry"
    /\ probe.status = 503 /\ probe.retryCount = 0 /\ probe.maxR = 3
    /\ probe.retry

\* C10: when requestWithRetry gives up, the error thrown to the caller is the
\* error of the last failed step of the call, a request attempt or the token
\* refresh that a 401 triggered.
C10_LastErrorSurfaced ==
    \A p \in Procs :
        (ApiCall(p) /\ task[p].result.kind # "Response")
            => task[p].result = task[p].recent

\* C11: every failing getAccessToken(), authenticate() or refreshToken() of
\* an Authentication that has its HTTP client fails with an
\* AuthenticationException, whatever failed underneath (the request, the
\* response body, a cache operation), and a call that returns gives a token,
\* never null or undefined.
AuthCall ==
    /\ auth.last.op \in {"getAccessToken", "authenticate", "refreshToken"}
    /\ auth.last.hadClient

C11_AuthErrorsOnly ==
    AuthCall =>
        /\ auth.last.kind = "ok" => IsToken(auth.last.ret)
        /\ auth.last.kind # "ok" => auth.last.kind = "Authentication"


\* C12: the token manager never retries internally: one authenticate() call
\* sends exactly one request to the token endpoint, whatever the response,
\* and waits for no backoff.
TokenFrameOnce(f) ==
    f.ep = "token" => (f.attempts <= 1 /\ f.retryCount = 0)

C12_NoInternalRetry ==
    \A p \in Procs :
        /\ \A i \in 1..Len(task[p].stack) : TokenFrameOnce(task[p].stack[i])
        /\ TokenFrameOnce(task[p].call)


\* C13 (as amended): refreshToken() clears the in-memory token and deletes
\* the cache entry before its token request is sent, and after a refresh
\* that failed the pre-refresh token is neither in memory nor in the cache.
RefreshFailed(p) ==
    /\ ApiCall(p) /\ task[p].call.refreshes >= 1
    /\ task[p].recent.ep = "token"
    /\ \A q \in Procs : task[q].pc \in {"idle", "done"}
    /\ \A q \in Procs : q > p => task[q].pc = "idle"

RefreshRequestSent(p) ==
    /\ task[p].pc = "recv" /\ task[p].stack # <<>>
    /\ Top(task[p].stack).cont = "rf_auth"
    /\ Top(task[p].stack).attempts = 1 /\ Top(task[p].stack).seen = {}

C14_NoCollision ==
    /\ (auth.last.op = "getAccessToken" /\ auth.last.kind = "ok")
          => auth.last.ret.owner = auth.creds[auth.last.inst]
    /\ (auth.last.op = "refreshToken" /\ auth.last.removed # NoOwner)
          => auth.last.removed = auth.creds[auth.last.inst]


\* C15: after a successful authenticate() whose response gives lifetime
\* expires_in (3600 when absent) the token is cached with TTL =
\* expires_in - 120 seconds, and when that is not positive it is not cached:
\* a lookup right after authenticate() finds no entry.
C15_CacheTtl ==
    [][(cache' # cache /\ cache'.present) =>
          LET life == cache'.value.exp - now'
          IN IF life - 120 > 0
             THEN cache'.expiresAt = now' + (life - 120)
             ELSE ~cacheHas(cache', now')]_vars


\* C16: authenticate() on an Authentication without an HTTP client throws at
\* once: client.post is not called (no request, no retry loop, no backoff)
\* and the in-memory token and the cache are left as they were.  In PHP the
\* same holds of requestNewToken, reached through getAccessToken().
C16_NoClientThrows ==
    [][(/\ auth'.last.op \in {"authenticate", "getAccessToken", "refreshToken"}
        /\ ~auth'.last.hadClient) =>
          /\ ~auth'.last.posted
          /\ auth'.last.op = "authenticate" => auth'.last.kind = "Authentication"
          /\ (auth'.last.op = "authenticate" \/
              (auth'.last.op = "getAccessToken" /\ auth'.last.kind # "ok")) =>
                (auth'.mem = auth.mem /\ auth'.store = auth.store)]_vars

C16_Witness ==
    /\ auth.last.op = "authenticate" /\ ~auth.last.hadClient
    /\ auth.last.kind = "Authentication" /\ ~auth.last.posted
    /\ \E k \in CacheKeys : auth.store[k].present
    /\ \E i \in Insts : IsToken(auth.mem[i])

\* the credential part of a configuration the claim calls invalid
CredentialMissing(c) ==
    \E f \in {"clientId", "clientSecret", "apiKey"} : c[f] \in {Absent, ""}
NegativeRetries(c) == c.maxRetries.given /\ c.maxRetries.value < 0
ConstructionFailed ==
    /\ probe.error # "ok"
    /\ probe.config = NoConfig
    /\ authCalls = 0
    /\ ~cache.present

\* C17: a configuration with a missing or empty credential, with a non-empty
\* environment other than "sandbox" and "production" (in PHP an empty one
\* too), or with a negative maxRetries makes the constructor throw: no object
\* is built, no token was requested and nothing was cached.
C17_FailFast ==
    (/\ probe.op # "none"
     /\ \/ CredentialMissing(probe.input)
        \/ probe.input.environment \notin {Absent, "", ENV_SANDBOX, ENV_PRODUCTION}
        \/ impl = "php" /\ probe.input.environment = ""
        \/ NegativeRetries(probe.input))
    => ConstructionFailed

C17_Witness ==
    /\ probe.op = "new"
    /\ ~CredentialMissing(probe.input)
    /\ probe.input.environment = "staging"
    /\ ~NegativeRetries(probe.input)
    /\ probe.error = "environment"
    /\ probe.config = NoConfig

\* C17 as stated: every environment other than "sandbox" and "production",
\* the empty one included, makes the constructor throw.
C17_AnyOtherEnvironment ==
    (/\ probe.op # "none"
     /\ \/ CredentialMissing(probe.input)
        \/ probe.input.environment \notin {Absent, ENV_SANDBOX, ENV_PRODUCTION}
        \/ NegativeRetries(probe.input))
    => ConstructionFailed

\* C18: the wait d before retry a with base delay b satisfies
\* min(b * 2^(a-1), 30000) <= d <= min(1.3 * b * 2^(a-1), 30000) milliseconds
\* (compared here in hundredths of a millisecond).
C18_BackoffBounds ==
    probe.op = "backoff" =>
        LET e == probe.retryDelay * pow2(probe.retryCount - 1)
        IN /\ min(100 * e, 100 * 30000) <= probe.delay
           /\ probe.delay <= min(130 * e, 100 * 30000)

\* C19: in every reachable state of a Node Authentication instance,
\* isAuthenticated() is true if and only if the instance holds an access
\* token in memory; in particular it is false after an authenticate() that
\* failed because the successful response carried no access_token.
C19_AuthenticatedIffToken ==
    impl = "node" =>
        \A i \in Insts : isAuthenticated(auth.mem[i]) <=> IsToken(auth.mem[i])

\* the two shapes of the claim, and a body without a token in either place
FlatShape(b) ==
    b.access_token # Absent /\ b.expires_in.given /\ ~b.data.given
NestedShape(b) ==
    /\ b.access_token = Absent /\ ~b.expires_in.given
    /\ b.data.given /\ b.data.access_token # Absent /\ b.data.expires_in.given
    /\ ~b.data.data.given
TokenNowhere(b) ==
    /\ b.access_token = Absent
    /\ b.data.given => (b.data.access_token = Absent /\ ~b.data.data.given)

\* C20: a successful token response with access_token and expires_in at the
\* top level, or with both under data, is accepted and yields that token with
\* that lifetime; a response with access_token in neither place makes
\* authenticate() throw AuthenticationException.
C20_BothShapes ==
    probe.op = "authenticate" =>
        /\ FlatShape(probe.body) =>
             probe.result = [kind |-> "ok", token |-> probe.body.access_token,
                             expiresIn |-> probe.body.expires_in.value]
        /\ NestedShape(probe.body) =>
             probe.result = [kind |-> "ok", token |-> probe.body.data.access_token,
                             expiresIn |-> probe.body.data.expires_in.value]
        /\ TokenNowhere(probe.body) => probe.result = NoToken

\* C21: isSuccess() is true exactly for a 2xx status with body.success true;
\* getData() is body.data whenever that member is present and not null, falsy
\* values included, and the whole body otherwise; getCode() is
\* body.error.code when present and the status code otherwise; getMessage()
\* is body.error.message, else body.message, else null.
C21_Getters ==
    probe.op = "getters" =>
        LET b == probe.body
        IN /\ probe.result.isSuccess <=>
                 (probe.statusCode \in 200..299 /\ b.success = "true")
           /\ probe.result.data =
                 IF b.data \notin {JsUndefined, JsNull} THEN b.data ELSE WholeBody
           /\ probe.result.code =
                 IF b.errorCode.given THEN b.errorCode.value ELSE probe.statusCode
           /\ probe.result.message =
                 IF b.errorMessage # JsUndefined THEN b.errorMessage
                 ELSE IF b.message # JsUndefined THEN b.message
                 ELSE JsNull

\* the entry written last is fresh at a call: not deleted since, and fewer
\* than ttl seconds (1000 ms each) have passed since the set
Fresh ==
    /\ probe.written.valid
    /\ ~probe.deleted
    /\ probe.at - probe.written.at < probe.written.ttl * 1000

\* C22: for MemoryCache and ArrayCache, get after set(k, v, t) returns v
\* while fewer than t seconds have passed and null once t seconds have
\* passed or after delete(k); has reports the entry in the same cases only.
C22_RoundTrip ==
    probe.backend \in {"MemoryCache", "ArrayCache"} =>
        /\ probe.op = "get" =>
             probe.ret = IF Fresh THEN probe.written.value ELSE Null
        /\ probe.op = "has" => (probe.ok <=> Fresh)

\* C23: delete(key) answers true and leaves no entry, whether or not the key
\* was present, in every backend; a second delete therefore answers as the
\* first did.
C23_DeleteIdempotent ==
    probe.op = "delete" => (probe.ok /\ ~cache.present)

\* what a hook threw is a plain error for requestWithRetry: no SDK exception,
\* or the ApiException with code 0 made of a response hook's error
PlainHookError ==
    /\ probe.hook # "none"
    /\ \/ probe.exc.kind = "Error"
       \/ probe.hook = "response" /\ probe.exc = Exc("Api", 0, "hook", 1)

C25_VerifyWebhook ==
    probe.op = "verify" =>
        IF probe.key \in {Absent, ""}
        THEN probe.result.kind \in {"Error", "InvalidArgument"}
        ELSE (probe.timestamp # "" /\ probe.signature # "") =>
                 /\ probe.result.kind = "returned"
                 /\ probe.result.value <=>
                        probe.signature =
                            expectedSignature(probe.timestamp, probe.body, probe.key)

\* a configuration that gives the three credentials and nothing else
OnlyCredentials(c) ==
    /\ ~CredentialMissing(c)
    /\ c.environment = Absent
    /\ ~c.timeout.given /\ ~c.maxRetries.given /\ c.autoReauth = Absent

C26_MaxRetriesNonNegative ==
    /\ probe.config.maxRetries >= 0
    /\ probe.result # "none" => probe.attempts >= 1

\* C28: the string signed by generateDisbursementSignature is
\* METHOD:endpoint:accessToken:sha256hex(body):timestamp, with the method in
\* upper case and the empty string hashed for a null body; so the letter
\* case of the method does not change it.
C28_SignedString ==
    probe.op = "sign" =>
        /\ probe.result.kind = "ok"
        /\ probe.result.signed =
               stringToSign(strtoupper(probe.method), probe.endpoint,
                            probe.accessToken,
                            sha256(IF probe.body = JsNull THEN "" ELSE probe.body),
                            probe.timestamp)

\* C29: the factory keeps one instance per name.  create on a registered
\* name returns the registered instance, builds nothing and ignores the new
\* configuration; on a free name it registers a new instance built from the
\* (valid) configuration; get throws exactly when the name is free; after
\* remove the name is free, and a later create builds a fresh instance.
C29_OneInstancePerName ==
    LET l == probe.last
        here == probe.instances[l.name]
    IN /\ l.op = "create" /\ l.wasRegistered =>
             /\ ~l.threw /\ l.ret = l.prev /\ here = l.prev
             /\ probe.made = l.madeBefore
       /\ l.op = "create" /\ ~l.wasRegistered /\ l.config # "invalid" =>
             /\ ~l.threw /\ l.ret = l.madeBefore + 1 /\ here = l.ret
             /\ probe.configs[l.ret] = l.config
       /\ l.op = "create" /\ ~l.wasRegistered /\ l.config = "invalid" =>
             l.threw /\ here = 0 /\ probe.made = l.madeBefore
       /\ l.op = "get" =>
             /\ l.threw <=> ~l.wasRegistered
             /\ l.wasRegistered => l.ret = l.prev
             /\ here = l.prev
       /\ l.op = "has" => (l.found <=> l.wasRegistered) /\ here = l.prev
       /\ l.op = "remove" => here = 0
       /\ \A n \in FactoryNames : probe.instances[n] <= probe.made
       /\ \A n1, n2 \in FactoryNames :
             (n1 # n2 /\ probe.instances[n1] # 0) =>
                 probe.instances[n1] # probe.instances[n2]

\* create on a name registered after an earlier remove, with another
\* configuration than the registered instance was built from
C29_Witness ==
    /\ probe.last.op = "create"
    /\ probe.last.wasRegistered
    /\ probe.last.ret = 2
    /\ probe.configs[2] # probe.last.config
    /\ probe.made = 2
    /\ probe.instances["b"] = 0

\* C30: a request that failed without an HTTP response, with no hook
\* throwing, is attempted again while retries remain: requestWithRetry
\* counts the retry and goes back to send the request once more.
C30_NetworkErrorRetried ==
    [][(/\ probe.pc = "caught"
        /\ probe.origin = "transport"
        /\ probe.status = 0
        /\ ~probe.threw
        /\ probe.retryCount < maxRetries)
       => (probe'.pc = "start" /\ probe'.retryCount = probe.retryCount + 1)]_vars

\* C31: when a 401 has led to a successful token refresh inside
\* requestWithRetry, the request the loop sends next carries the refreshed
\* token, the one now held by Authentication, in its Authorization header.
C31_RetryCarriesRefreshedToken ==
    \A p \in Procs :
        (/\ task[p].pc = "recv"
         /\ Len(task[p].stack) = 1
         /\ Top(task[p].stack).ep = "api"
         /\ Top(task[p].stack).refreshes >= 1
         /\ Top(task[p].stack).last.kind = "Authentication"
         /\ IsToken(accessToken))
        => task[p].hdr = accessToken

\* C32: one call of Disbursement.transfer sends its POST at most once.
\* transfer hands the POST to Client.post, which is requestWithRetry: the
\* activation for the api endpoint is that POST, and `attempts` counts the
\* times Client.request sent it.
C32_TransferSentOnce ==
    \A p \in Procs :
        /\ \A i \in 1..Len(task[p].stack) :
              task[p].stack[i].ep = "api" => task[p].stack[i].attempts <= 1
        /\ task[p].pc = "done" => task[p].call.attempts <= 1

\* C33: every Node requestWithRetry call terminates, and the HTTP requests
\* it causes are bounded by a function of maxRetries.  A call chain holds at
\* most two activations: the one that refreshes and the token request of
\* its refresh, which finds isRefreshingToken set and refreshes no further.
\* Each activation sends at most maxRetries + 1 requests and the outer one
\* refreshes at most maxRetries times: (maxRetries + 1)^2 requests at most.
\* Every call that was made ends with a Response or an exception.
C33_NodeTerminates ==
    /\ [](impl = "node" =>
            \A p \in Procs :
                /\ Len(task[p].stack) <= 2
                /\ \A i \in 1..Len(task[p].stack) :
                      /\ FrameBound(task[p].stack[i])
                      /\ task[p].stack[i].refreshes <= maxRetries
                /\ Len(task[p].stack) = 2 =>
                      /\ task[p].stack[2].ep = "token"
                      /\ task[p].stack[2].refreshes = 0
                      /\ isRefreshingToken)
    /\ \A p \in Procs :
          (impl = "node" /\ task[p].pc \notin {"idle", "done"})
              ~> (task[p].pc = "done" /\ task[p].result.kind # "none")

\* the token request of a refresh, answered with 401 while isRefreshingToken
\* is set, has waited and used up its retries: its last request is in flight
C33_Witness ==
    \E p \in Procs :
        /\ impl = "node"
        /\ maxRetries = MaxRetriesBound
        /\ task[p].pc = "recv"
        /\ Len(task[p].stack) = 2
        /\ task[p].stack[1].ep = "api"
        /\ task[p].stack[2].seen = {401}
        /\ task[p].stack[2].attempts = maxRetries + 1
        /\ isRefreshingToken

\* C34: in the PHP client the mutual calls requestWithRetry -> refreshToken
\* -> requestNewToken -> post -> requestWithRetry stop at a bounded depth:
\* the activation that carries the token request of a refresh does not
\* start a refresh of its own when that token request is answered with 401,
\* so a call chain holds two activations at most.
C34_PhpDepthBounded ==
    impl = "php" =>
        \A p \in Procs :
            /\ Len(task[p].stack) <= 2
            /\ \A i \in 1..Len(task[p].stack) :
                  task[p].stack[i].cont = "rf_auth" => task[p].stack[i].refreshes = 0

\* C35: isRefreshingToken is always released.  The flag is set only while
\* the requestWithRetry that set it awaits its refresh or the sleep after
\* it, it is false whenever no request is in progress, and once set it is
\* reset whether the refresh succeeds or fails.
FlagHolder(p) == RefreshInFlight(p) \/ task[p].pc = "rf_sleep"

C35_FlagReleased ==
    /\ [](isRefreshingToken => \E p \in Procs : FlagHolder(p))
    /\ []((\A p \in Procs : task[p].pc \in {"idle", "done"}) => ~isRefreshingToken)
    /\ (isRefreshingToken ~> ~isRefreshingToken)

\* a call whose refresh failed has ended, and the next call, rejected with
\* 401 in its turn, has set the flag again for a refresh of its own
C35_Witness ==
    /\ Done(1)
    /\ task[1].call.refreshes = 1
    /\ task[1].result.kind = "Authentication"
    /\ task[2].pc = "rf_del"
    /\ isRefreshingToken

\* C36: under any interleaving of getAccessToken(), authenticate() and
\* refreshToken() at their await points, whenever no operation is in
\* progress and both a token in memory and a cache entry exist, they are
\* the same token, and it is the token of the most recently completed
\* successful token request.
Quiet == \A c \in Callers : probe.who[c].pc \in {"idle", "done"}

C36_MemoryMatchesCache ==
    (Quiet /\ probe.mem > 0 /\ probe.store > 0)
        => (probe.mem = probe.store /\ probe.mem = probe.latest)

\* C37: in a request attempt whose before-request hooks have all run, each
\* registered interceptor receives exactly one outcome notification, its
\* response hook or its error hook, never both and never neither, whatever
\* the hooks of the other interceptors do.
C37_OneNotification ==
    (probe.pc = "idle" /\ probe.requested) =>
        \A k \in Interceptors :
            probe.notified[k].response + probe.notified[k].error = 1

\* C38: the MetricsInterceptor counters satisfy successfulRequests +
\* failedRequests <= totalRequests after any sequence of request attempts,
\* with equality whenever no attempt is in flight.
C38_MetricsBalance ==
    LET m == probe.metrics
    IN /\ m.successfulRequests + m.failedRequests <= m.totalRequests
       /\ probe.pc = "idle" =>
             m.successfulRequests + m.failedRequests = m.totalRequests

\* C39: a Config constructed with an explicit maxRetries = n, n >= 0,
\* reports getMaxRetries() = n, also for n = 0, and the client built on it
\* runs its retry loop with that budget.
C39_ExplicitMaxRetries ==
    (/\ probe.op \in {"new", "used"}
     /\ probe.error = "ok"
     /\ probe.input.maxRetries.given
     /\ probe.input.maxRetries.value >= 0)
    => /\ probe.config.maxRetries = probe.input.maxRetries.value
       /\ probe.op = "used" => maxRetries = probe.input.maxRetries.value

====
